---- MODULE Spec2Model ----
(***************************************************************************)
(* The wallet FFI boundary layer (base_layer/wallet_ffi): opaque handles   *)
(* over boxed values, the byte-vector marshaler, and the error mapper.     *)
(*                                                                         *)
(* A handle is the address of a heap cell (0 is the null pointer).  Every  *)
(* boundary function is one action; `call` records the last call: its      *)
(* name, arguments, return value, the wallet engine operations it invoked, *)
(* and how it ended ("ok": returned normally, "panic": unwound, "fault":   *)
(* dereferenced an invalid pointer).  The caller makes its calls one after *)
(* another: `resume` is the return of control to the caller.  After a      *)
(* panic or a fault the process is gone and no further call is made.       *)
(*                                                                         *)
(* `twin` is used only where two runs of the program are compared: it      *)
(* keeps what the caller observed in the first run while the second run,   *)
(* started from a fresh process, makes the same calls.  `threads` is used   *)
(* only where several caller threads share a wallet handle: it keeps how   *)
(* far each thread has got in the call it is making.                       *)
(***************************************************************************)
EXTENDS Integers, Sequences, FiniteSets, TLC

VARIABLES heap, held, call, errlog, engines, twin, threads

vars == <<heap, held, call, errlog, engines, twin, threads>>

(***************************** bounds **************************************)
\* number of heap cells
MaxAddr == 2
\* longest explicitly enumerated foreign byte array
MaxLen == 2
\* number of error conversions recorded in one run
MaxConv == 2
\* number of events one wallet engine emits in one run
MaxEvents == 2

(*************************** machine integers ******************************)
\* libc::c_uint and libc::c_int are 32 bits wide.  A c_uint is written as
\* its top bit and its low 31 bits, [hi, lo] = hi * 2^31 + lo, so that every
\* 32-bit count is a value of the model; a c_int is an integer.
IntMax == 2147483647
IntMin == (0 - IntMax) - 1

c_uint(n) == [hi |-> 0, lo |-> n]
UIntMax == [hi |-> 1, lo |-> IntMax]

ULess(a, b) == a.hi < b.hi \/ (a.hi = b.hi /\ a.lo < b.lo)

\* `x as c_int` for a c_uint x: the same 32 bits read as two's complement
as_c_int(x) == IF x.hi = 0 THEN x.lo ELSE (x.lo - IntMax) - 1

\* `x as c_uint` for a c_int x
as_c_uint(x) == IF x >= 0 THEN [hi |-> 0, lo |-> x] ELSE [hi |-> 1, lo |-> (x + IntMax) + 1]

(***************************** byte data ***********************************)
Byte == {0, 1}

\* A Vec<c_uchar>: `len` elements (a c_uint), the first Len(head) of them
\* listed in `head`, every later one equal to `rest` (a final run of one
\* byte).  The representation is canonical: head never ends in `rest`.
RECURSIVE StripTail(_, _)
StripTail(s, b) ==
    IF s # <<>> /\ s[Len(s)] = b THEN StripTail(SubSeq(s, 1, Len(s) - 1), b) ELSE s

to_vec(s) ==
    IF s = <<>> THEN [len |-> c_uint(0), head |-> <<>>, rest |-> 0]
    ELSE [len |-> c_uint(Len(s)), head |-> StripTail(s, s[Len(s)]), rest |-> s[Len(s)]]

\* a run of n > 0 bytes b
Run(n, b) == [len |-> n, head |-> <<>>, rest |-> b]

\* element i (from 0) of a vector, i < v.len
ElemAt(v, i) == IF ULess(i, c_uint(Len(v.head))) THEN v.head[i.lo + 1] ELSE v.rest

SeqsUpTo(n) == UNION {[1..k -> Byte] : k \in 0..n}

\* foreign arrays listed element by element
SmallArrays == {to_vec(s) : s \in SeqsUpTo(MaxLen)}

\* counts around the sign bit of a 32-bit count: 2^31 - 1, 2^31, 2^31 + 1, 2^32 - 1
BigLens == {[hi |-> 0, lo |-> IntMax], [hi |-> 1, lo |-> 0], [hi |-> 1, lo |-> 1], UIntMax}

\* foreign arrays of those lengths, filled with ones
BigArrays == {Run(n, 1) : n \in BigLens}

(**************************** pointers *************************************)
NULL == 0
Addr == DOMAIN heap

\* a foreign (caller-owned) pointer: null, or the memory that can be read
\* from it on (for an array, the array and the bytes that lie behind it)
NullPtr == [is_null |-> TRUE]
Ptr(m) == [is_null |-> FALSE, mem |-> m]

Free == [type |-> "Free"]

\* the handles of one type the caller holds, and null
Handles(t) == {a \in held : heap[a].type = t} \cup {NULL}

\* the allocator hands out the lowest free cell
NewAddr == CHOOSE a \in Addr : heap[a] = Free /\ \A b \in Addr : heap[b] = Free => a <= b

\* No call is in progress: the last one has returned and the caller has
\* taken its result.
Idle == [op |-> "idle", args |-> [none |-> 0], ret |-> "void", engine |-> <<>>, outcome |-> "ok"]

Running == call = Idle

\* a single caller thread: its position is `call`
NoThreads == <<>>

\* a single run: nothing is recorded and nothing is compared
NoTwin == [run |-> "single", seen |-> <<>>, pos |-> 0, derived |-> {}]

\* The call has returned normally; the caller takes the result and is free
\* to make its next call.  A call that panicked or faulted never returns.
resume ==
    /\ call.op # "idle"
    /\ call.outcome = "ok"
    /\ call' = Idle
    /\ UNCHANGED <<heap, held, errlog, engines, twin, threads>>

(************************ how a call ends **********************************)
\* return a plain value; nothing is allocated or released
Return(op, args, ret, eng) ==
    /\ call' = [op |-> op, args |-> args, ret |-> ret, engine |-> eng, outcome |-> "ok"]
    /\ UNCHANGED <<heap, held>>

\* Box::into_raw(Box::new(obj)): a fresh allocation whose address is returned
Box_into_raw(op, args, obj, eng) ==
    /\ \E a \in Addr : heap[a] = Free
    /\ heap' = [heap EXCEPT ![NewAddr] = obj]
    /\ held' = held \cup {NewAddr}
    /\ call' = [op |-> op, args |-> args, ret |-> NewAddr, engine |-> eng, outcome |-> "ok"]

\* Box::from_raw(p) dropped at once: the allocation is released.  The caller
\* gives up the handle it passed to a destroy function in any case.
Box_from_raw(op, args, p, eng) ==
    /\ heap' = [heap EXCEPT ![p] = Free]
    /\ held' = held \ {p}
    /\ call' = [op |-> op, args |-> args, ret |-> "void", engine |-> eng, outcome |-> "ok"]

\* a destroy function that returns without releasing anything
NoRelease(op, args, p) ==
    /\ heap' = heap
    /\ held' = held \ {p}
    /\ call' = [op |-> op, args |-> args, ret |-> "void", engine |-> <<>>, outcome |-> "ok"]

\* the call unwinds (unwrap on Err/None, arithmetic overflow, index out of range)
Panic(op, args) ==
    /\ call' = [op |-> op, args |-> args, ret |-> "none", engine |-> <<>>, outcome |-> "panic"]
    /\ UNCHANGED <<heap, held>>

\* the call dereferences a null pointer
Fault(op, args) ==
    /\ call' = [op |-> op, args |-> args, ret |-> "none", engine |-> <<>>, outcome |-> "fault"]
    /\ UNCHANGED <<heap, held>>

(***************************** ByteVector **********************************)
ByteVector(v) == [type |-> "ByteVector", val |-> v]

\* slice::from_raw_parts(p, n).to_vec() for n elements that lie within the
\* memory m readable from p: the first n elements of m, one by one
Take(m, n) ==
    IF ~ULess(c_uint(Len(m.head)), n) THEN to_vec(SubSeq(m.head, 1, n.lo))
    ELSE [len |-> n, head |-> m.head, rest |-> m.rest]

\* lib.rs byte_vector_create: exactly element_count elements are copied from
\* byte_array, so the length test that follows the copy never fails.  The
\* memory of byte_array is all that can be read from the pointer on: the
\* caller's array and whatever bytes lie behind it.  With a count below its
\* length the first element_count bytes are copied, the bytes behind a
\* shorter array among them; with a count that reaches beyond it the copy
\* reads memory that is not there, and the call faults.
byte_vector_create(byte_array, element_count) ==
    LET args == [byte_array |-> byte_array, element_count |-> element_count] IN
    /\ Running
    /\ UNCHANGED <<errlog, engines, twin, threads>>
    /\ IF byte_array.is_null
       THEN Return("byte_vector_create", args, NULL, <<>>)
       ELSE IF ULess(byte_array.mem.len, element_count)
       THEN Fault("byte_vector_create", args)
       ELSE LET bytes == ByteVector(Take(byte_array.mem, element_count)) IN
            IF bytes.val.len # element_count
            THEN Return("byte_vector_create", args, NULL, <<>>)
            ELSE Box_into_raw("byte_vector_create", args, bytes, <<>>)

\* lib.rs byte_vector_destroy: the null test is inverted, so a non-null
\* vector is never released and Box::from_raw is applied to null only.
\* Dropping a Box made from null is undefined: the build either reads the
\* Vec header at address 0 (a fault) or treats the branch as unreachable.
byte_vector_destroy(bytes) ==
    LET args == [bytes |-> bytes] IN
    /\ Running
    /\ UNCHANGED <<errlog, engines, twin, threads>>
    /\ IF bytes = NULL
       THEN \/ Fault("byte_vector_destroy", args)
            \/ NoRelease("byte_vector_destroy", args, bytes)
       ELSE NoRelease("byte_vector_destroy", args, bytes)

\* lib.rs byte_vector_get_length as a function of the heap
get_length(vec) == IF vec = NULL THEN c_uint(0) ELSE heap[vec].val.len

byte_vector_get_length(vec) ==
    /\ Running
    /\ UNCHANGED <<errlog, engines, twin, threads>>
    /\ Return("byte_vector_get_length", [vec |-> vec], get_length(vec), <<>>)

\* The bounds test shared by byte_vector_get_at and the collection get_at
\* functions, for a container of `length` elements:
\*     let len = length as c_int - 1;
\*     if len < 0 { return zero }  if position > len as c_uint { return zero }
\*     container[position]
\* The result is the set of ways the test can end: "overflow" (the
\* subtraction panics, overflow checks on), "zero" (the zero value is
\* returned), "index" (container[position] is read), "range" (the index
\* panics: position is not below the length).
clamp_after(len, length, position) ==
    IF len < 0 THEN "zero"
    ELSE IF ULess(as_c_uint(len), position) THEN "zero"
    ELSE IF ULess(position, length) THEN "index" ELSE "range"

clamp(length, position) ==
    IF as_c_int(length) = IntMin
    THEN {"overflow", clamp_after(IntMax, length, position)}
    ELSE {clamp_after(as_c_int(length) - 1, length, position)}

byte_vector_get_at(ptr, position) ==
    LET args == [ptr |-> ptr, position |-> position] IN
    /\ Running
    /\ UNCHANGED <<errlog, engines, twin, threads>>
    /\ IF ptr = NULL
       THEN Return("byte_vector_get_at", args, 0, <<>>)
       ELSE \E way \in clamp(get_length(ptr), position) :
              CASE way = "zero" -> Return("byte_vector_get_at", args, 0, <<>>)
                [] way = "index" ->
                     Return("byte_vector_get_at", args, ElemAt(heap[ptr].val, position), <<>>)
                [] OTHER -> Panic("byte_vector_get_at", args)

(****************************** strings ************************************)
\* The memory behind a `*const c_char`: the bytes before the terminating
\* NUL, as a sequence of characters.  BadByte is a byte that is not valid
\* UTF-8 (0xFF); CStr::to_str() fails on a string that holds one.
BadByte == "0xFF"

to_str_ok(s) == \A i \in 1..Len(s) : s[i] # BadByte

\* a CString the boundary layer hands out (contact_get_alias)
String(s) == [type |-> "String", val |-> s]

\* lib.rs string_destroy
string_destroy(ptr) ==
    LET args == [ptr |-> ptr] IN
    /\ Running
    /\ UNCHANGED <<errlog, engines, twin, threads>>
    /\ IF ptr # NULL
       THEN Box_from_raw("string_destroy", args, ptr, <<>>)
       ELSE Return("string_destroy", args, "void", <<>>)

(******************************** keys *************************************)
\* The key types and their from_bytes / to_vec / from_hex / from_secret_key
\* live in tari_crypto and tari_utilities.  A key crosses the boundary as 32
\* bytes (lib.rs test_keys); inside, a secret key is a scalar of the group and
\* a public key is a point of it.  The group of the model has a small prime
\* order: its scalars are 0..Order-1, and its points are the multiples of a
\* base point, point p being p times the base point.
KeyLen == 32

Order == 251

Scalars == 0..(Order - 1)

HexDigits == <<"0", "1", "2", "3", "4", "5", "6", "7", "8", "9", "a", "b", "c", "d", "e", "f">>

IsHexDigit(c) == \E i \in 1..16 : HexDigits[i] = c
HexVal(c) == (CHOOSE i \in 1..16 : HexDigits[i] = c) - 1

\* tari_utilities::hex::from_hex: two digits make one byte
RECURSIVE hex_bytes(_)
hex_bytes(s) ==
    IF s = <<>> THEN <<>>
    ELSE <<16 * HexVal(s[1]) + HexVal(s[2])>> \o hex_bytes(SubSeq(s, 3, Len(s)))

from_hex(s) ==
    IF Len(s) % 2 = 1 THEN [ok |-> FALSE, err |-> <<"LengthError">>]
    ELSE IF \E i \in 1..Len(s) : ~IsHexDigit(s[i])
         THEN [ok |-> FALSE, err |-> <<"InvalidCharacter", "ParseIntError">>]
         ELSE [ok |-> TRUE, val |-> to_vec(hex_bytes(s))]

\* the 32 bytes that are the little-endian digits of a number below 2^16
le_bytes(x) ==
    to_vec([i \in 1..KeyLen |-> IF i = 1 THEN x % 256 ELSE IF i = 2 THEN x \div 256 ELSE 0])

\* the number whose little-endian digits are bytes i.. of 32, modulo Order
RECURSIVE le_mod_order(_, _)
le_mod_order(v, i) ==
    IF i = KeyLen THEN 0
    ELSE (ElemAt(v, c_uint(i)) + 256 * le_mod_order(v, i + 1)) % Order

\* PublicKey::from_secret_key: the scalar times the base point, which is
\* the multiple BasePoint of the point the points are counted from; it is
\* one-to-one
BasePoint == 3

from_secret_key(k) == (k * BasePoint) % Order

\* the keys in the wallet's test data
TestKey(i) == from_secret_key(16 + i)

\* TariPublicKey to_vec: the compressed point.  A point has one encoding,
\* the little-endian digits of the even number 2p.
PublicKey_to_vec(p) == le_bytes(2 * p)

\* TariPublicKey::from_bytes: 32 bytes that are the encoding of a point; an
\* odd number, or one that is 2 * Order or more, encodes none
PublicKey_from_bytes(v) ==
    IF v.len # c_uint(KeyLen) THEN [ok |-> FALSE, err |-> <<"IncorrectLength">>]
    ELSE LET x == ElemAt(v, c_uint(0)) + 256 * ElemAt(v, c_uint(1)) IN
         IF \/ \E i \in 2..(KeyLen - 1) : ElemAt(v, c_uint(i)) # 0
            \/ x % 2 = 1
            \/ x \div 2 >= Order
         THEN [ok |-> FALSE, err |-> <<"ConversionError", "invalid point">>]
         ELSE [ok |-> TRUE, val |-> x \div 2]

\* a to_vec that writes the scalar's digits from the most significant on
PrivateKey_to_vec_BigEndian(k) == to_vec([i \in 1..KeyLen |-> IF i = KeyLen THEN k ELSE 0])

\* TariPrivateKey to_vec: the little-endian digits of the scalar
PrivateKey_to_vec(k) == le_bytes(k)

\* TariPrivateKey::from_bytes: any 32 bytes, read as a little-endian number
\* and reduced modulo the group order
PrivateKey_from_bytes(v) ==
    IF v.len # c_uint(KeyLen) THEN [ok |-> FALSE, err |-> <<"IncorrectLength">>]
    ELSE [ok |-> TRUE, val |-> le_mod_order(v, 0)]

PublicKey(k) == [type |-> "PublicKey", val |-> k]
PrivateKey(k) == [type |-> "PrivateKey", val |-> k]

\* lib.rs public_key_create
public_key_create(bytes) ==
    LET args == [bytes |-> bytes] IN
    /\ Running
    /\ UNCHANGED <<errlog, engines, twin, threads>>
    /\ IF bytes = NULL
       THEN Return("public_key_create", args, NULL, <<>>)
       ELSE LET pk == PublicKey_from_bytes(heap[bytes].val) IN
            IF pk.ok THEN Box_into_raw("public_key_create", args, PublicKey(pk.val), <<>>)
            ELSE Return("public_key_create", args, NULL, <<>>)

\* lib.rs public_key_destroy
public_key_destroy(pk) ==
    LET args == [pk |-> pk] IN
    /\ Running
    /\ UNCHANGED <<errlog, engines, twin, threads>>
    /\ IF pk # NULL
       THEN Box_from_raw("public_key_destroy", args, pk, <<>>)
       ELSE Return("public_key_destroy", args, "void", <<>>)

\* lib.rs public_key_get_bytes
public_key_get_bytes(pk) ==
    LET args == [pk |-> pk] IN
    /\ Running
    /\ UNCHANGED <<errlog, engines, twin, threads>>
    /\ IF pk # NULL
       THEN Box_into_raw("public_key_get_bytes", args,
                         ByteVector(PublicKey_to_vec(heap[pk].val)), <<>>)
       ELSE Return("public_key_get_bytes", args, NULL, <<>>)

\* lib.rs public_key_from_private_key
public_key_from_private_key(secret_key) ==
    LET args == [secret_key |-> secret_key] IN
    /\ Running
    /\ UNCHANGED <<errlog, engines, twin, threads>>
    /\ IF secret_key = NULL
       THEN Return("public_key_from_private_key", args, NULL, <<>>)
       ELSE Box_into_raw("public_key_from_private_key", args,
                         PublicKey(from_secret_key(heap[secret_key].val)), <<>>)

\* lib.rs public_key_from_hex: to_str().unwrap() panics on invalid UTF-8
public_key_from_hex(key) ==
    LET args == [key |-> key] IN
    /\ Running
    /\ UNCHANGED <<errlog, engines, twin, threads>>
    /\ IF key.is_null
       THEN Return("public_key_from_hex", args, NULL, <<>>)
       ELSE IF ~to_str_ok(key.mem)
       THEN Panic("public_key_from_hex", args)
       ELSE LET bytes == from_hex(key.mem)
                public_key == IF bytes.ok THEN PublicKey_from_bytes(bytes.val) ELSE bytes IN
            IF public_key.ok
            THEN Box_into_raw("public_key_from_hex", args, PublicKey(public_key.val), <<>>)
            ELSE Return("public_key_from_hex", args, NULL, <<>>)

\* lib.rs private_key_create
private_key_create(bytes) ==
    LET args == [bytes |-> bytes] IN
    /\ Running
    /\ UNCHANGED <<errlog, engines, twin, threads>>
    /\ IF bytes = NULL
       THEN Return("private_key_create", args, NULL, <<>>)
       ELSE LET pk == PrivateKey_from_bytes(heap[bytes].val) IN
            IF pk.ok THEN Box_into_raw("private_key_create", args, PrivateKey(pk.val), <<>>)
            ELSE Return("private_key_create", args, NULL, <<>>)

\* lib.rs private_key_destroy
private_key_destroy(pk) ==
    LET args == [pk |-> pk] IN
    /\ Running
    /\ UNCHANGED <<errlog, engines, twin, threads>>
    /\ IF pk # NULL
       THEN Box_from_raw("private_key_destroy", args, pk, <<>>)
       ELSE Return("private_key_destroy", args, "void", <<>>)

\* lib.rs private_key_get_bytes
private_key_get_bytes(pk) ==
    LET args == [pk |-> pk] IN
    /\ Running
    /\ UNCHANGED <<errlog, engines, twin, threads>>
    /\ IF pk # NULL
       THEN Box_into_raw("private_key_get_bytes", args,
                         ByteVector(PrivateKey_to_vec(heap[pk].val)), <<>>)
       ELSE Return("private_key_get_bytes", args, NULL, <<>>)

\* lib.rs private_key_generate: OsRng::new().unwrap() panics when the
\* system's random source cannot be opened (rng_ok = FALSE)
private_key_generate(rng_ok, secret_key) ==
    LET args == [none |-> 0] IN
    /\ Running
    /\ UNCHANGED <<errlog, engines, twin, threads>>
    /\ IF ~rng_ok
       THEN Panic("private_key_generate", args)
       ELSE Box_into_raw("private_key_generate", args, PrivateKey(secret_key), <<>>)

\* lib.rs private_key_from_hex
private_key_from_hex(key) ==
    LET args == [key |-> key] IN
    /\ Running
    /\ UNCHANGED <<errlog, engines, twin, threads>>
    /\ IF key.is_null
       THEN Return("private_key_from_hex", args, NULL, <<>>)
       ELSE IF ~to_str_ok(key.mem)
       THEN Panic("private_key_from_hex", args)
       ELSE LET bytes == from_hex(key.mem)
                secret_key == IF bytes.ok THEN PrivateKey_from_bytes(bytes.val) ELSE bytes IN
            IF secret_key.ok
            THEN Box_into_raw("private_key_from_hex", args, PrivateKey(secret_key.val), <<>>)
            ELSE Return("private_key_from_hex", args, NULL, <<>>)

(******************************* contacts **********************************)
Contact(alias, public_key) ==
    [type |-> "Contact", val |-> [alias |-> alias, public_key |-> public_key]]

\* lib.rs contact_create
contact_create(alias, public_key) ==
    LET args == [alias |-> alias, public_key |-> public_key] IN
    /\ Running
    /\ UNCHANGED <<errlog, engines, twin, threads>>
    /\ IF alias.is_null
       THEN Return("contact_create", args, NULL, <<>>)
       ELSE IF ~to_str_ok(alias.mem)
       THEN Panic("contact_create", args)
       ELSE IF public_key = NULL
       THEN Return("contact_create", args, NULL, <<>>)
       ELSE Box_into_raw("contact_create", args, Contact(alias.mem, heap[public_key].val), <<>>)

\* lib.rs contact_get_alias: a new CString in every case
contact_get_alias(contact) ==
    LET args == [contact |-> contact]
        a == IF contact # NULL THEN heap[contact].val.alias ELSE <<>> IN
    /\ Running
    /\ UNCHANGED <<errlog, engines, twin, threads>>
    /\ Box_into_raw("contact_get_alias", args, String(a), <<>>)

\* contact_get_public_key handing out the contact's own allocation, no clone
contact_get_public_key_NoClone(contact) ==
    /\ Running
    /\ UNCHANGED <<errlog, engines, twin, threads>>
    /\ Return("contact_get_public_key", [contact |-> contact], contact, <<>>)

\* lib.rs contact_get_public_key
contact_get_public_key(contact) ==
    LET args == [contact |-> contact] IN
    /\ Running
    /\ UNCHANGED <<errlog, engines, twin, threads>>
    /\ IF contact = NULL
       THEN Return("contact_get_public_key", args, NULL, <<>>)
       ELSE Box_into_raw("contact_get_public_key", args,
                         PublicKey(heap[contact].val.public_key), <<>>)

\* lib.rs contact_destroy
contact_destroy(contact) ==
    LET args == [contact |-> contact] IN
    /\ Running
    /\ UNCHANGED <<errlog, engines, twin, threads>>
    /\ IF contact # NULL
       THEN Box_from_raw("contact_destroy", args, contact, <<>>)
       ELSE Return("contact_destroy", args, "void", <<>>)

(***************************** collections *********************************)
\* TariContacts, TariCompletedTransactions, TariPendingInboundTransactions
\* and TariPendingOutboundTransactions wrap a Vec; an element handle is a
\* Box of a clone of the element.
Boxed(type, val) == [type |-> type, val |-> val]

\* A boxed collection: `len` is the length of its Vec (a c_uint, as the
\* `*_get_length` functions return it) and `val` lists its elements from the
\* first on; where the Vec is longer than the list, every further element
\* equals the last one listed.
Collection(type, elems) == [type |-> type, val |-> elems, len |-> c_uint(Len(elems))]

\* a collection of n elements, n past the listable, each equal to elem
BigCollection(type, elem, n) == [type |-> type, val |-> <<elem>>, len |-> n]

\* element `position` (from 0) of the collection in cell c, position < len
collection_elem(c, position) ==
    LET elems == heap[c].val IN
    IF ULess(position, c_uint(Len(elems))) THEN elems[position.lo + 1] ELSE elems[Len(elems)]

\* `*_get_length`: zero for null, else the Vec's length as c_uint
collection_get_length(op, args, c) ==
    /\ Running
    /\ UNCHANGED <<errlog, engines, twin, threads>>
    /\ Return(op, args, IF c # NULL THEN heap[c].len ELSE c_uint(0), <<>>)

\* `*_get_at`: null for a null collection or a position the bounds test
\* refuses, else a Box of a clone of the element
collection_get_at(op, args, c, position, elem_type) ==
    /\ Running
    /\ UNCHANGED <<errlog, engines, twin, threads>>
    /\ IF c = NULL
       THEN Return(op, args, NULL, <<>>)
       ELSE \E way \in clamp(heap[c].len, position) :
              CASE way = "zero" -> Return(op, args, NULL, <<>>)
                [] way = "index" ->
                     Box_into_raw(op, args, Boxed(elem_type, collection_elem(c, position)), <<>>)
                [] OTHER -> Panic(op, args)

\* `*_destroy` with `if !p.is_null() { Box::from_raw(p); }`
handle_destroy(op, args, p) ==
    /\ Running
    /\ UNCHANGED <<errlog, engines, twin, threads>>
    /\ IF p # NULL
       THEN Box_from_raw(op, args, p, <<>>)
       ELSE Return(op, args, "void", <<>>)

\* a numeric accessor of a transaction: zero for null
transaction_get(op, args, t, field) ==
    /\ Running
    /\ UNCHANGED <<errlog, engines, twin, threads>>
    /\ Return(op, args, IF t = NULL THEN 0 ELSE heap[t].val[field], <<>>)

\* a key accessor of a transaction: null for null, else a Box of a clone
transaction_get_key(op, args, t, field) ==
    /\ Running
    /\ UNCHANGED <<errlog, engines, twin, threads>>
    /\ IF t = NULL
       THEN Return(op, args, NULL, <<>>)
       ELSE Box_into_raw(op, args, PublicKey(heap[t].val[field]), <<>>)

contacts_get_length(contacts) ==
    collection_get_length("contacts_get_length", [contacts |-> contacts], contacts)

contacts_get_at(contacts, position) ==
    collection_get_at("contacts_get_at", [contacts |-> contacts, position |-> position],
                      contacts, position, "Contact")

contacts_destroy(contacts) ==
    handle_destroy("contacts_destroy", [contacts |-> contacts], contacts)

completed_transactions_get_length(transactions) ==
    collection_get_length("completed_transactions_get_length",
                          [transactions |-> transactions], transactions)

completed_transactions_get_at(transactions, position) ==
    collection_get_at("completed_transactions_get_at",
                      [transactions |-> transactions, position |-> position],
                      transactions, position, "CompletedTransaction")

completed_transactions_destroy(transactions) ==
    handle_destroy("completed_transactions_destroy", [transactions |-> transactions], transactions)

pending_outbound_transactions_get_length(transactions) ==
    collection_get_length("pending_outbound_transactions_get_length",
                          [transactions |-> transactions], transactions)

pending_outbound_transactions_get_at(transactions, position) ==
    collection_get_at("pending_outbound_transactions_get_at",
                      [transactions |-> transactions, position |-> position],
                      transactions, position, "PendingOutboundTransaction")

pending_outbound_transactions_destroy(transactions) ==
    handle_destroy("pending_outbound_transactions_destroy",
                   [transactions |-> transactions], transactions)

pending_inbound_transactions_get_length(transactions) ==
    collection_get_length("pending_inbound_transactions_get_length",
                          [transactions |-> transactions], transactions)

pending_inbound_transactions_get_at(transactions, position) ==
    collection_get_at("pending_inbound_transactions_get_at",
                      [transactions |-> transactions, position |-> position],
                      transactions, position, "PendingInboundTransaction")

pending_inbound_transactions_destroy(transactions) ==
    handle_destroy("pending_inbound_transactions_destroy",
                   [transactions |-> transactions], transactions)

(***************************** transactions ********************************)
completed_transaction_get_transaction_id(transaction) ==
    transaction_get("completed_transaction_get_transaction_id",
                    [transaction |-> transaction], transaction, "tx_id")

completed_transaction_get_destination_public_key(transaction) ==
    transaction_get_key("completed_transaction_get_destination_public_key",
                        [transaction |-> transaction], transaction, "destination_public_key")

completed_transaction_get_amount(transaction) ==
    transaction_get("completed_transaction_get_amount",
                    [transaction |-> transaction], transaction, "amount")

completed_transaction_get_fee(transaction) ==
    transaction_get("completed_transaction_get_fee",
                    [transaction |-> transaction], transaction, "fee")

completed_transaction_get_transaction_timestamp(transaction) ==
    transaction_get("completed_transaction_get_transaction_timestamp",
                    [transaction |-> transaction], transaction, "timestamp")

completed_transaction_destroy(transaction) ==
    handle_destroy("completed_transaction_destroy", [transaction |-> transaction], transaction)

pending_outbound_transaction_get_transaction_id(transaction) ==
    transaction_get("pending_outbound_transaction_get_transaction_id",
                    [transaction |-> transaction], transaction, "tx_id")

pending_outbound_transaction_get_destination_public_key(transaction) ==
    transaction_get_key("pending_outbound_transaction_get_destination_public_key",
                        [transaction |-> transaction], transaction, "destination_public_key")

pending_outbound_transaction_get_amount(transaction) ==
    transaction_get("pending_outbound_transaction_get_amount",
                    [transaction |-> transaction], transaction, "amount")

pending_outbound_transaction_get_transaction_timestamp(transaction) ==
    transaction_get("pending_outbound_transaction_get_transaction_timestamp",
                    [transaction |-> transaction], transaction, "timestamp")

pending_outbound_transaction_destroy(transaction) ==
    handle_destroy("pending_outbound_transaction_destroy",
                   [transaction |-> transaction], transaction)

pending_inbound_transaction_get_transaction_id(transaction) ==
    transaction_get("pending_inbound_transaction_get_transaction_id",
                    [transaction |-> transaction], transaction, "tx_id")

pending_inbound_transaction_get_source_public_key(transaction) ==
    transaction_get_key("pending_inbound_transaction_get_source_public_key",
                        [transaction |-> transaction], transaction, "source_public_key")

pending_inbound_transaction_get_amount(transaction) ==
    transaction_get("pending_inbound_transaction_get_amount",
                    [transaction |-> transaction], transaction, "amount")

pending_inbound_transaction_get_transaction_timestamp(transaction) ==
    transaction_get("pending_inbound_transaction_get_transaction_timestamp",
                    [transaction |-> transaction], transaction, "timestamp")

pending_inbound_transaction_destroy(transaction) ==
    handle_destroy("pending_inbound_transaction_destroy",
                   [transaction |-> transaction], transaction)

(****************************** CommsConfig ********************************)
\* Network address strings of a run, and how tari_comms reads them:
\* `parse::<NetAddress>()` accepts an IP socket address and an onion
\* address, and only the host of an IP address parses as the config's host.
IpAddress == <<"127.0.0.1", ":", "21443">>
OnionAddress == <<"wallet.onion", ":", "21443">>
NotAnAddress == <<"nowhere">>

parse_NetAddress(s) ==
    IF s = IpAddress THEN [ok |-> TRUE, val |-> [host |-> s[1], port |-> s[3], ip |-> TRUE]]
    ELSE IF s = OnionAddress THEN [ok |-> TRUE, val |-> [host |-> s[1], port |-> s[3], ip |-> FALSE]]
    ELSE [ok |-> FALSE, err |-> <<"NetAddressError", "ParseFailed">>]

CommsConfig(secret_key, net_address, datastore_path, database_name) ==
    [type |-> "CommsConfig",
     val |-> [node_identity |-> [secret_key |-> secret_key, control_service_address |-> net_address],
              host |-> net_address.host,
              datastore_path |-> datastore_path,
              peer_database_name |-> database_name]]

\* a comms_config_create whose identity is built for some private keys only
comms_config_create_KeyDependent(address, database_name, datastore_path, secret_key, identity_ok) ==
    LET args == [address |-> address, database_name |-> database_name,
                 datastore_path |-> datastore_path, secret_key |-> secret_key]
        op == "comms_config_create" IN
    /\ Running
    /\ UNCHANGED <<errlog, engines, twin, threads>>
    /\ IF address.is_null THEN Return(op, args, NULL, <<>>)
       ELSE IF ~to_str_ok(address.mem) THEN Panic(op, args)
       ELSE IF database_name.is_null THEN Return(op, args, NULL, <<>>)
       ELSE IF ~to_str_ok(database_name.mem) THEN Panic(op, args)
       ELSE IF datastore_path.is_null THEN Return(op, args, NULL, <<>>)
       ELSE IF ~to_str_ok(datastore_path.mem) THEN Panic(op, args)
       ELSE LET net_address == parse_NetAddress(address.mem) IN
            IF ~net_address.ok THEN Return(op, args, NULL, <<>>)
            ELSE IF secret_key = NULL THEN Fault(op, args)
            ELSE IF ~identity_ok \/ heap[secret_key].val % 2 = 1 THEN Panic(op, args)
            ELSE IF ~net_address.val.ip THEN Panic(op, args)
            ELSE Box_into_raw(op, args,
                              CommsConfig(heap[secret_key].val, net_address.val,
                                          datastore_path.mem, database_name.mem), <<>>)

\* lib.rs comms_config_create.  secret_key is dereferenced without a null
\* test; NodeIdentity::new(..).unwrap() panics when the identity cannot be
\* built (identity_ok = FALSE) and host().parse().unwrap() when the host is
\* not an IP address.
comms_config_create(address, database_name, datastore_path, secret_key, identity_ok) ==
    LET args == [address |-> address, database_name |-> database_name,
                 datastore_path |-> datastore_path, secret_key |-> secret_key]
        op == "comms_config_create" IN
    /\ Running
    /\ UNCHANGED <<errlog, engines, twin, threads>>
    /\ IF address.is_null THEN Return(op, args, NULL, <<>>)
       ELSE IF ~to_str_ok(address.mem) THEN Panic(op, args)
       ELSE IF database_name.is_null THEN Return(op, args, NULL, <<>>)
       ELSE IF ~to_str_ok(database_name.mem) THEN Panic(op, args)
       ELSE IF datastore_path.is_null THEN Return(op, args, NULL, <<>>)
       ELSE IF ~to_str_ok(datastore_path.mem) THEN Panic(op, args)
       ELSE LET net_address == parse_NetAddress(address.mem) IN
            IF ~net_address.ok THEN Return(op, args, NULL, <<>>)
            ELSE IF secret_key = NULL THEN Fault(op, args)
            ELSE IF ~identity_ok THEN Panic(op, args)
            ELSE IF ~net_address.val.ip THEN Panic(op, args)
            ELSE Box_into_raw(op, args,
                              CommsConfig(heap[secret_key].val, net_address.val,
                                          datastore_path.mem, database_name.mem), <<>>)

\* lib.rs comms_config_destroy
comms_config_destroy(wc) ==
    handle_destroy("comms_config_destroy", [wc |-> wc], wc)

(******************************** Wallet ***********************************)
\* The wallet engine (tari_wallet) behind a TariWallet: the stores the
\* boundary layer reads, in the order the engine iterates them.  An engine
\* call either succeeds or fails (engine_ok); the calls a boundary function
\* makes are listed in call.engine.
Wallet(config) ==
    [type |-> "Wallet",
     val |-> [comms_config |-> config, contacts |-> <<>>, completed |-> <<>>,
              pending_inbound |-> <<>>, pending_outbound |-> <<>>, balance |-> 0]]

\* test_utils::generate_wallet_test_data: test_wallet_ffi counts four
\* contacts afterwards
TestContacts == 4

TestData(w) ==
    [w EXCEPT
       !.contacts = [i \in 1..TestContacts |->
                       [alias |-> <<"contact", HexDigits[i + 1]>>, public_key |-> TestKey(i)]],
       !.completed = <<[tx_id |-> 1, destination_public_key |-> TestKey(1), amount |-> 10,
                        fee |-> 1, timestamp |-> 100]>>,
       !.pending_inbound = <<[tx_id |-> 2, source_public_key |-> TestKey(2), amount |-> 20,
                              timestamp |-> 200]>>,
       !.pending_outbound = <<[tx_id |-> 3, destination_public_key |-> TestKey(3), amount |-> 30,
                               fee |-> 3, timestamp |-> 300]>>,
       !.balance = 1000]

\* The event side of the engine of the wallet in one heap cell: its callback
\* table (one slot per event kind, "none" when empty), the events it has
\* emitted and not yet delivered, the event its delivery thread has taken
\* and is about to deliver, and what was delivered.  `running` tells that
\* its delivery thread is alive, `stopping` that a shutdown has been ordered
\* which the thread has not yet obeyed.  It is kept apart from the heap, for
\* the engine's threads are not the caller's memory: what an engine did
\* stays visible after the wallet's cell is released, and the record of a
\* cell is that of the wallet last created in it.
Stopped ==
    [running |-> FALSE, stopping |-> FALSE, received |-> "none", reply |-> "none",
     queue |-> <<>>, inflight |-> <<>>, emitted |-> 0, log |-> <<>>, dropped |-> 0]

Started == [Stopped EXCEPT !.running = TRUE]

\* register_callback_*: the slot takes the function, whatever it held
register_callback_KeepFirst(e, slot, callback) ==
    IF e[slot] = "none" THEN [e EXCEPT ![slot] = callback] ELSE e

register_callback(e, slot, callback) == [e EXCEPT ![slot] = callback]

\* Wallet::shutdown and the drop of the runtime, code of tari_wallet and
\* tokio.  The shutdown is graceful and the runtime is torn down at destroy
\* (spec 4.6, 5); what becomes of the events the engine has emitted and not
\* yet delivered, and of the delivery thread that holds one of them, is not
\* said, so both ways are open.  "joined": the delivery thread has ended
\* when shutdown returns, the callback table is gone and the events not
\* delivered are discarded.  "detached": the thread has been told to stop
\* and is left to itself; it may still deliver what it holds and what
\* waits, and ends in a step of its own (stop).
Fates(e) == IF e.queue = <<>> /\ e.inflight = <<>> THEN {"joined"} ELSE {"joined", "detached"}

shutdown(e, fate) ==
    IF fate = "joined"
    THEN [e EXCEPT !.running = FALSE, !.stopping = FALSE,
                   !.received = "none", !.reply = "none",
                   !.queue = <<>>, !.inflight = <<>>,
                   !.dropped = @ + Len(e.queue) + Len(e.inflight)]
    ELSE [e EXCEPT !.stopping = TRUE]

\* lib.rs wallet_create: Runtime::new() and TariWallet::new() may fail
wallet_create(config, runtime_ok, engine_ok) ==
    LET args == [config |-> config] IN
    /\ Running
    /\ UNCHANGED <<errlog, twin, threads>>
    /\ IF config = NULL
       THEN Return("wallet_create", args, NULL, <<>>) /\ UNCHANGED engines
       ELSE IF ~runtime_ok
       THEN Return("wallet_create", args, NULL, <<>>) /\ UNCHANGED engines
       ELSE IF ~engine_ok
       THEN Return("wallet_create", args, NULL, <<"new">>) /\ UNCHANGED engines
       ELSE /\ Box_into_raw("wallet_create", args, Wallet(heap[config].val), <<"new">>)
            /\ engines' = [engines EXCEPT ![NewAddr] = Started]

\* lib.rs wallet_generate_test_data
wallet_generate_test_data(wallet, engine_ok) ==
    LET args == [wallet |-> wallet] IN
    /\ Running
    /\ UNCHANGED <<errlog, engines, twin, threads>>
    /\ IF wallet = NULL THEN Return("wallet_generate_test_data", args, FALSE, <<>>)
       ELSE IF ~engine_ok
       THEN Return("wallet_generate_test_data", args, FALSE, <<"generate_wallet_test_data">>)
       ELSE /\ heap' = [heap EXCEPT ![wallet].val = TestData(@)]
            /\ held' = held
            /\ call' = [op |-> "wallet_generate_test_data", args |-> args, ret |-> TRUE,
                        engine |-> <<"generate_wallet_test_data">>, outcome |-> "ok"]

\* lib.rs wallet_add_base_node_peer
wallet_add_base_node_peer(wallet, public_key, address, engine_ok) ==
    LET args == [wallet |-> wallet, public_key |-> public_key, address |-> address]
        op == "wallet_add_base_node_peer" IN
    /\ Running
    /\ UNCHANGED <<errlog, engines, twin, threads>>
    /\ IF wallet = NULL THEN Return(op, args, FALSE, <<>>)
       ELSE IF public_key = NULL THEN Return(op, args, FALSE, <<>>)
       ELSE IF address.is_null THEN Return(op, args, FALSE, <<>>)
       ELSE IF ~to_str_ok(address.mem) THEN Panic(op, args)
       ELSE Return(op, args, engine_ok, <<"add_base_node_peer">>)

\* The contacts service keeps one contact per public key.  save_contact
\* puts the contact in the place of the stored contact with its key, or
\* after the stored contacts; remove_contact takes out the contact with
\* the key, and fails when there is none.
HasContact(store, public_key) == \E i \in 1..Len(store) : store[i].public_key = public_key

save_contact(store, c) ==
    IF HasContact(store, c.public_key)
    THEN [i \in 1..Len(store) |-> IF store[i].public_key = c.public_key THEN c ELSE store[i]]
    ELSE Append(store, c)

remove_contact(store, public_key) ==
    SelectSeq(store, LAMBDA x : x.public_key # public_key)

\* a boolean-returning wallet operation that has changed the wallet
Changed(op, args, wallet, val, eng) ==
    /\ heap' = [heap EXCEPT ![wallet].val = val]
    /\ held' = held
    /\ call' = [op |-> op, args |-> args, ret |-> TRUE, engine |-> eng, outcome |-> "ok"]

\* lib.rs wallet_add_contact: the contacts service is asked to save a clone
\* of the contact, and the call blocks until it has
wallet_add_contact_NoSave(wallet, contact, engine_ok) ==
    LET args == [wallet |-> wallet, contact |-> contact]
        op == "wallet_add_contact" IN
    /\ Running
    /\ UNCHANGED <<errlog, engines, twin, threads>>
    /\ IF wallet = NULL THEN Return(op, args, FALSE, <<>>)
       ELSE IF contact = NULL THEN Return(op, args, FALSE, <<>>)
       ELSE Return(op, args, engine_ok, <<"save_contact">>)

wallet_add_contact(wallet, contact, engine_ok) ==
    LET args == [wallet |-> wallet, contact |-> contact]
        op == "wallet_add_contact" IN
    /\ Running
    /\ UNCHANGED <<errlog, engines, twin, threads>>
    /\ IF wallet = NULL THEN Return(op, args, FALSE, <<>>)
       ELSE IF contact = NULL THEN Return(op, args, FALSE, <<>>)
       ELSE IF ~engine_ok THEN Return(op, args, FALSE, <<"save_contact">>)
       ELSE Changed(op, args, wallet,
                    [heap[wallet].val EXCEPT !.contacts = save_contact(@, heap[contact].val)],
                    <<"save_contact">>)

\* lib.rs wallet_remove_contact: the contact with the public key of the
\* contact given is removed
wallet_remove_contact_AlsoViews(wallet, contact, engine_ok) ==
    LET args == [wallet |-> wallet, contact |-> contact]
        op == "wallet_remove_contact" IN
    /\ Running
    /\ UNCHANGED <<errlog, engines, twin, threads>>
    /\ IF wallet = NULL THEN Return(op, args, FALSE, <<>>)
       ELSE IF contact = NULL THEN Return(op, args, FALSE, <<>>)
       ELSE IF ~engine_ok \/ ~HasContact(heap[wallet].val.contacts, heap[contact].val.public_key)
       THEN Return(op, args, FALSE, <<"remove_contact">>)
       ELSE /\ heap' = [a \in Addr |->
                         IF a = wallet
                         THEN [heap[a] EXCEPT !.val.contacts =
                                 remove_contact(@, heap[contact].val.public_key)]
                         ELSE IF heap[a].type = "Contacts"
                         THEN Collection("Contacts",
                                         remove_contact(heap[a].val,
                                                        heap[contact].val.public_key))
                         ELSE heap[a]]
            /\ held' = held
            /\ call' = [op |-> op, args |-> args, ret |-> TRUE,
                        engine |-> <<"remove_contact">>, outcome |-> "ok"]

wallet_remove_contact(wallet, contact, engine_ok) ==
    LET args == [wallet |-> wallet, contact |-> contact]
        op == "wallet_remove_contact" IN
    /\ Running
    /\ UNCHANGED <<errlog, engines, twin, threads>>
    /\ IF wallet = NULL THEN Return(op, args, FALSE, <<>>)
       ELSE IF contact = NULL THEN Return(op, args, FALSE, <<>>)
       ELSE IF ~engine_ok \/ ~HasContact(heap[wallet].val.contacts, heap[contact].val.public_key)
       THEN Return(op, args, FALSE, <<"remove_contact">>)
       ELSE Changed(op, args, wallet,
                    [heap[wallet].val EXCEPT
                       !.contacts = remove_contact(@, heap[contact].val.public_key)],
                    <<"remove_contact">>)

\* lib.rs wallet_send_transaction
wallet_send_transaction(wallet, dest_public_key, amount, fee_per_gram, engine_ok) ==
    LET args == [wallet |-> wallet, dest_public_key |-> dest_public_key,
                 amount |-> amount, fee_per_gram |-> fee_per_gram]
        op == "wallet_send_transaction" IN
    /\ Running
    /\ UNCHANGED <<errlog, engines, twin, threads>>
    /\ IF wallet = NULL THEN Return(op, args, FALSE, <<>>)
       ELSE IF dest_public_key = NULL THEN Return(op, args, FALSE, <<>>)
       ELSE Return(op, args, engine_ok, <<"send_transaction">>)

\* lib.rs wallet_call_back_register_received_transaction: the wallet is
\* dereferenced without a null test.  Dereferencing a null wallet is
\* undefined: the build either reads the wallet at address 0 (a fault), or
\* makes the engine's register call all the same and returns whether it
\* succeeded; no wallet lives at null, so no callback table is changed.
wallet_call_back_register_received_transaction(wallet, callback, engine_ok) ==
    LET args == [wallet |-> wallet, call |-> callback]
        op == "wallet_call_back_register_received_transaction" IN
    /\ Running
    /\ UNCHANGED <<errlog, twin, threads>>
    /\ IF wallet = NULL
       THEN /\ \/ Fault(op, args)
               \/ Return(op, args, engine_ok, <<"register_callback_received_transaction">>)
            /\ UNCHANGED engines
       ELSE /\ Return(op, args, engine_ok, <<"register_callback_received_transaction">>)
            /\ engines' = IF engine_ok
                           THEN [engines EXCEPT
                                   ![wallet] = register_callback(@, "received", callback)]
                           ELSE engines

\* lib.rs wallet_call_back_register_received_transaction_reply: the same,
\* for the other slot
wallet_call_back_register_received_transaction_reply(wallet, callback, engine_ok) ==
    LET args == [wallet |-> wallet, call |-> callback]
        op == "wallet_call_back_register_received_transaction_reply" IN
    /\ Running
    /\ UNCHANGED <<errlog, twin, threads>>
    /\ IF wallet = NULL
       THEN /\ \/ Fault(op, args)
               \/ Return(op, args, engine_ok,
                         <<"register_callback_received_transaction_reply">>)
            /\ UNCHANGED engines
       ELSE /\ Return(op, args, engine_ok,
                      <<"register_callback_received_transaction_reply">>)
            /\ engines' = IF engine_ok
                           THEN [engines EXCEPT
                                   ![wallet] = register_callback(@, "reply", callback)]
                           ELSE engines

\* wallet_get_balance without its null test
wallet_get_balance_NoNullTest(wallet, engine_ok) ==
    LET args == [wallet |-> wallet] IN
    /\ Running
    /\ UNCHANGED <<errlog, engines, twin, threads>>
    /\ IF wallet = NULL THEN Fault("wallet_get_balance", args)
       ELSE Return("wallet_get_balance", args,
                   IF engine_ok THEN heap[wallet].val.balance ELSE 0, <<"get_balance">>)

\* lib.rs wallet_get_balance
wallet_get_balance(wallet, engine_ok) ==
    LET args == [wallet |-> wallet] IN
    /\ Running
    /\ UNCHANGED <<errlog, engines, twin, threads>>
    /\ IF wallet = NULL THEN Return("wallet_get_balance", args, 0, <<>>)
       ELSE Return("wallet_get_balance", args,
                   IF engine_ok THEN heap[wallet].val.balance ELSE 0, <<"get_balance">>)

\* the four collection queries: null for a null wallet or a failed engine
\* call, else a Box of a Vec of clones of what the engine returned
wallet_get_collection_NullWhenEmpty(op, wallet, engine_ok, engine_op, store, type) ==
    LET args == [wallet |-> wallet] IN
    /\ Running
    /\ UNCHANGED <<errlog, engines, twin, threads>>
    /\ IF wallet = NULL THEN Return(op, args, NULL, <<>>)
       ELSE IF ~engine_ok THEN Return(op, args, NULL, <<engine_op>>)
       ELSE IF heap[wallet].val[store] = <<>> THEN Return(op, args, NULL, <<engine_op>>)
       ELSE Box_into_raw(op, args, Collection(type, heap[wallet].val[store]), <<engine_op>>)

wallet_get_collection(op, wallet, engine_ok, engine_op, store, type) ==
    LET args == [wallet |-> wallet] IN
    /\ Running
    /\ UNCHANGED <<errlog, engines, twin, threads>>
    /\ IF wallet = NULL THEN Return(op, args, NULL, <<>>)
       ELSE IF ~engine_ok THEN Return(op, args, NULL, <<engine_op>>)
       ELSE Box_into_raw(op, args, Collection(type, heap[wallet].val[store]), <<engine_op>>)

wallet_get_contacts(wallet, engine_ok) ==
    wallet_get_collection("wallet_get_contacts", wallet, engine_ok,
                          "get_contacts", "contacts", "Contacts")

wallet_get_completed_transactions(wallet, engine_ok) ==
    wallet_get_collection("wallet_get_completed_transactions", wallet, engine_ok,
                          "get_completed_transactions", "completed", "CompletedTransactions")

wallet_get_pending_inbound_transactions(wallet, engine_ok) ==
    wallet_get_collection("wallet_get_pending_inbound_transactions", wallet, engine_ok,
                          "get_pending_inbound_transactions", "pending_inbound",
                          "PendingInboundTransactions")

wallet_get_pending_outbound_transactions(wallet, engine_ok) ==
    wallet_get_collection("wallet_get_pending_outbound_transactions", wallet, engine_ok,
                          "get_pending_outbound_transactions", "pending_outbound",
                          "PendingOutboundTransactions")

\* the get-by-id queries: the first entry of the fetched store whose id is
\* transaction_id, cloned into a Box, or null
wallet_get_by_id_FirstEntry(op, wallet, transaction_id, engine_ok, engine_op, store, type) ==
    LET args == [wallet |-> wallet, transaction_id |-> transaction_id] IN
    /\ Running
    /\ UNCHANGED <<errlog, engines, twin, threads>>
    /\ IF wallet = NULL THEN Return(op, args, NULL, <<>>)
       ELSE IF ~engine_ok THEN Return(op, args, NULL, <<engine_op>>)
       ELSE IF heap[wallet].val[store] = <<>> THEN Return(op, args, NULL, <<engine_op>>)
       ELSE Box_into_raw(op, args, Boxed(type, heap[wallet].val[store][1]), <<engine_op>>)

wallet_get_by_id(op, wallet, transaction_id, engine_ok, engine_op, store, type) ==
    LET args == [wallet |-> wallet, transaction_id |-> transaction_id] IN
    /\ Running
    /\ UNCHANGED <<errlog, engines, twin, threads>>
    /\ IF wallet = NULL THEN Return(op, args, NULL, <<>>)
       ELSE IF ~engine_ok THEN Return(op, args, NULL, <<engine_op>>)
       ELSE LET txs == heap[wallet].val[store]
                hits == {i \in 1..Len(txs) : txs[i].tx_id = transaction_id} IN
            IF hits = {} THEN Return(op, args, NULL, <<engine_op>>)
            ELSE Box_into_raw(op, args,
                              Boxed(type, txs[CHOOSE i \in hits : \A j \in hits : i <= j]),
                              <<engine_op>>)

wallet_get_completed_transaction_by_id(wallet, transaction_id, engine_ok) ==
    wallet_get_by_id("wallet_get_completed_transaction_by_id", wallet, transaction_id, engine_ok,
                     "get_completed_transactions", "completed", "CompletedTransaction")

wallet_get_pending_inbound_transaction_by_id(wallet, transaction_id, engine_ok) ==
    wallet_get_by_id("wallet_get_pending_inbound_transaction_by_id", wallet, transaction_id,
                     engine_ok, "get_pending_inbound_transactions", "pending_inbound",
                     "PendingInboundTransaction")

wallet_get_pending_outbound_transaction_by_id(wallet, transaction_id, engine_ok) ==
    wallet_get_by_id("wallet_get_pending_outbound_transaction_by_id", wallet, transaction_id,
                     engine_ok, "get_pending_outbound_transactions", "pending_outbound",
                     "PendingOutboundTransaction")

\* lib.rs wallet_destroy: the Box is taken back, the engine is shut down and
\* the result of the shutdown is dropped; the wallet, and with it the
\* runtime its services run on, is dropped in either case
\* a wallet that had taken the caller's config instead of a copy of it:
\* dropping the wallet releases the config as well
wallet_destroy_DropsConfig(wallet, engine_ok) ==
    LET args == [wallet |-> wallet] IN
    /\ Running
    /\ UNCHANGED <<errlog, twin, threads>>
    /\ IF wallet # NULL
       THEN /\ heap' = [a \in Addr |->
                         IF a = wallet \/ heap[a] = [type |-> "CommsConfig",
                                                     val |-> heap[wallet].val.comms_config]
                         THEN Free ELSE heap[a]]
            /\ held' = held \ {wallet}
            /\ call' = [op |-> "wallet_destroy", args |-> args, ret |-> "void",
                        engine |-> <<"shutdown">>, outcome |-> "ok"]
            /\ \E fate \in Fates(engines[wallet]) :
                  engines' = [engines EXCEPT ![wallet] = shutdown(@, fate)]
       ELSE Return("wallet_destroy", args, "void", <<>>) /\ UNCHANGED engines

wallet_destroy_KeepOnFailure(wallet, engine_ok) ==
    LET args == [wallet |-> wallet] IN
    /\ Running
    /\ UNCHANGED <<errlog, twin, threads>>
    /\ IF wallet = NULL
       THEN Return("wallet_destroy", args, "void", <<>>) /\ UNCHANGED engines
       ELSE IF engine_ok
       THEN /\ Box_from_raw("wallet_destroy", args, wallet, <<"shutdown">>)
            /\ \E fate \in Fates(engines[wallet]) :
                  engines' = [engines EXCEPT ![wallet] = shutdown(@, fate)]
       ELSE Return("wallet_destroy", args, "void", <<"shutdown">>) /\ UNCHANGED engines

wallet_destroy(wallet, engine_ok) ==
    LET args == [wallet |-> wallet] IN
    /\ Running
    /\ UNCHANGED <<errlog, twin, threads>>
    /\ IF wallet # NULL
       THEN /\ Box_from_raw("wallet_destroy", args, wallet, <<"shutdown">>)
            /\ \E fate \in Fates(engines[wallet]) :
                  engines' = [engines EXCEPT ![wallet] = shutdown(@, fate)]
       ELSE Return("wallet_destroy", args, "void", <<>>) /\ UNCHANGED engines

(*********************** callback dispatcher *******************************)
\* The event stream of the wallet engine and the thread that delivers it.
\* An event is "received" (a transaction was received) or "reply" (the
\* reply to a sent transaction was received); the engine numbers the events
\* it emits.
EventKinds == {"received", "reply"}

\* the transaction an event is about
EventTransaction(ev) ==
    IF ev.kind = "received"
    THEN Boxed("PendingInboundTransaction",
               [tx_id |-> ev.id, source_public_key |-> TestKey(2), amount |-> 20,
                timestamp |-> 200])
    ELSE Boxed("CompletedTransaction",
               [tx_id |-> ev.id, destination_public_key |-> TestKey(1), amount |-> 10,
                fee |-> 1, timestamp |-> 100])

\* the engine of wallet w emits an event
emit(w, kind) ==
    /\ Running
    /\ engines[w].running
    /\ ~engines[w].stopping
    /\ engines[w].emitted < MaxEvents
    /\ engines' = [engines EXCEPT
                     ![w].emitted = @ + 1,
                     ![w].queue = Append(@, [id |-> engines[w].emitted + 1, kind |-> kind])]
    /\ UNCHANGED <<heap, held, call, errlog, twin, threads>>

\* the delivery thread takes the oldest event that waits
take_LastFirst(w) ==
    LET q == engines[w].queue IN
    /\ Running
    /\ engines[w].running
    /\ engines[w].inflight = <<>>
    /\ q # <<>>
    /\ engines' = [engines EXCEPT ![w].inflight = <<q[Len(q)]>>,
                                  ![w].queue = SubSeq(q, 1, Len(q) - 1)]
    /\ UNCHANGED <<heap, held, call, errlog, twin, threads>>

take(w) ==
    /\ Running
    /\ engines[w].running
    /\ engines[w].inflight = <<>>
    /\ engines[w].queue # <<>>
    /\ engines' = [engines EXCEPT ![w].inflight = <<Head(engines[w].queue)>>,
                                  ![w].queue = Tail(@)]
    /\ UNCHANGED <<heap, held, call, errlog, twin, threads>>

\* the delivery thread delivers the event it took: the function in the slot
\* of the event's kind is invoked once with a freshly allocated handle to
\* the transaction, which becomes the caller's; an empty slot drops the event
deliver_Twice(w) ==
    LET ev == engines[w].inflight[1]
        callback == engines[w][ev.kind] IN
    /\ Running
    /\ engines[w].running
    /\ engines[w].inflight # <<>>
    /\ UNCHANGED <<call, errlog, twin, threads>>
    /\ IF callback = "none"
       THEN /\ engines' = [engines EXCEPT ![w].inflight = <<>>]
            /\ UNCHANGED <<heap, held>>
       ELSE /\ \E a \in Addr : heap[a] = Free
            /\ heap' = [heap EXCEPT ![NewAddr] = EventTransaction(ev)]
            /\ held' = held \cup {NewAddr}
            /\ engines' = [engines EXCEPT
                             ![w].inflight = <<>>,
                             ![w].log = @ \o << [id |-> ev.id, kind |-> ev.kind,
                                                 callback |-> callback, tx |-> NewAddr],
                                                [id |-> ev.id, kind |-> ev.kind,
                                                 callback |-> callback, tx |-> NewAddr] >>]

deliver(w) ==
    LET ev == engines[w].inflight[1]
        callback == engines[w][ev.kind] IN
    /\ Running
    /\ engines[w].running
    /\ engines[w].inflight # <<>>
    /\ UNCHANGED <<call, errlog, twin, threads>>
    /\ IF callback = "none"
       THEN /\ engines' = [engines EXCEPT ![w].inflight = <<>>]
            /\ UNCHANGED <<heap, held>>
       ELSE /\ \E a \in Addr : heap[a] = Free
            /\ heap' = [heap EXCEPT ![NewAddr] = EventTransaction(ev)]
            /\ held' = held \cup {NewAddr}
            /\ engines' = [engines EXCEPT
                             ![w].inflight = <<>>,
                             ![w].log = Append(@, [id |-> ev.id, kind |-> ev.kind,
                                                   callback |-> callback, tx |-> NewAddr])]

\* the delivery thread obeys the shutdown that was ordered and ends: what
\* it has not delivered is discarded
stop(w) ==
    /\ Running
    /\ engines[w].running
    /\ engines[w].stopping
    /\ engines' = [engines EXCEPT
                     ![w].running = FALSE, ![w].stopping = FALSE,
                     ![w].queue = <<>>, ![w].inflight = <<>>,
                     ![w].dropped = @ + Len(engines[w].queue) + Len(engines[w].inflight)]
    /\ UNCHANGED <<heap, held, call, errlog, twin, threads>>

(***************************** error mapper ********************************)
\* An error value is the path of variant names from the family's root to
\* the innermost variant, followed by the payload if the innermost variant
\* has one: WalletError::OutputManagerError(OutputManagerError::
\* OutputManagerStorageError(OutputManagerStorageError::ValueNotFound(k)))
\* is <<"OutputManagerError", "OutputManagerStorageError", "ValueNotFound", k>>.
\* "OtherVariant" is any variant that error.rs does not name.
Payloads == {"a", "b"}
OtherVariant == "OtherVariant"

Under(name, errors) == {<<name>> \o e : e \in errors}

OutputManagerStorageErrors ==
    {<<"ValuesNotFound">>, <<"OutputAlreadySpent">>, <<"PendingTransactionNotFound">>,
     <<"DuplicateOutput">>, <<OtherVariant>>}
      \cup {<<"ValueNotFound", p>> : p \in Payloads}

OutputManagerErrors ==
    {<<"NotEnoughFunds">>, <<"IncompleteTransaction">>, <<"DuplicateOutput">>, <<OtherVariant>>}
      \cup Under("OutputManagerStorageError", OutputManagerStorageErrors)

TransactionStorageErrors ==
    {<<"DuplicateOutput">>, <<OtherVariant>>} \cup {<<"ValueNotFound", p>> : p \in Payloads}

TransactionServiceErrors ==
    {<<"InvalidStateError">>, <<"RepeatedMessageError">>, <<"TransactionDoesNotExistError">>,
     <<OtherVariant>>}
      \cup {<<"TransactionProtocolError", p>> : p \in Payloads}
      \cup {<<"TransactionError", p>> : p \in Payloads}
      \cup Under("OutputManagerError", OutputManagerErrors)
      \cup Under("TransactionStorageError", TransactionStorageErrors)

NetAddressErrors == {<<"ParseFailed">>, <<OtherVariant>>}

WalletErrors ==
    Under("OutputManagerError", OutputManagerErrors)
      \cup Under("TransactionServiceError", TransactionServiceErrors)
      \cup Under("NetAddressError", NetAddressErrors)
      \cup {<<OtherVariant>>}

HexErrors ==
    {<<"LengthError">>, <<"HexConversionError">>, <<OtherVariant>>}
      \cup {<<"InvalidCharacter", p>> : p \in Payloads}

ByteArrayErrors ==
    {<<"IncorrectLength">>, <<OtherVariant>>} \cup {<<"ConversionError", p>> : p \in Payloads}

\* format!("{:?}", e): the derived Debug rendering, Variant(Inner(..))
RECURSIVE Debug(_)
Debug(e) == IF Len(e) = 1 THEN e[1] ELSE e[1] \o "(" \o Debug(Tail(e)) \o ")"

\* A match arm: its pattern and the code it gives.  A pattern is a path;
\* a final "_" stands for the wildcard, which matches whatever is there.
Arm(pat, code) == [pat |-> pat, code |-> code]

Matches(pat, e) ==
    IF pat[Len(pat)] = "_"
    THEN /\ Len(e) >= Len(pat)
         /\ SubSeq(e, 1, Len(pat) - 1) = SubSeq(pat, 1, Len(pat) - 1)
    ELSE e = pat

\* WalletArms with the nested NotEnoughFunds arm given the output-manager
\* code of the top-level one
WalletArms_NestedAs101 ==
    << Arm(<<"OutputManagerError", "NotEnoughFunds">>, 101),
       Arm(<<"OutputManagerError", "IncompleteTransaction">>, 102),
       Arm(<<"OutputManagerError", "DuplicateOutput">>, 103),
       Arm(<<"OutputManagerError", "OutputManagerStorageError", "ValuesNotFound">>, 104),
       Arm(<<"OutputManagerError", "OutputManagerStorageError", "OutputAlreadySpent">>, 105),
       Arm(<<"OutputManagerError", "OutputManagerStorageError", "PendingTransactionNotFound">>, 106),
       Arm(<<"OutputManagerError", "OutputManagerStorageError", "DuplicateOutput">>, 107),
       Arm(<<"OutputManagerError", "OutputManagerStorageError", "ValueNotFound", "_">>, 108),
       Arm(<<"TransactionServiceError", "InvalidStateError">>, 200),
       Arm(<<"TransactionServiceError", "TransactionProtocolError", "_">>, 201),
       Arm(<<"TransactionServiceError", "RepeatedMessageError">>, 202),
       Arm(<<"TransactionServiceError", "TransactionDoesNotExistError">>, 203),
       Arm(<<"TransactionServiceError", "OutputManagerError", "NotEnoughFunds">>, 101),
       Arm(<<"TransactionServiceError", "OutputManagerError", "_">>, 205),
       Arm(<<"TransactionServiceError", "TransactionError", "_">>, 206),
       Arm(<<"TransactionServiceError", "TransactionStorageError", "DuplicateOutput">>, 207),
       Arm(<<"TransactionServiceError", "TransactionStorageError", "ValueNotFound", "_">>, 208),
       Arm(<<"NetAddressError", "ParseFailed">>, 300),
       Arm(<<"_">>, 999) >>

\* WalletArms with the wildcard arm of the wrapped output-manager errors
\* placed before the arm of the wrapped NotEnoughFunds
WalletArms_WildcardFirst ==
    << Arm(<<"OutputManagerError", "NotEnoughFunds">>, 101),
       Arm(<<"OutputManagerError", "IncompleteTransaction">>, 102),
       Arm(<<"OutputManagerError", "DuplicateOutput">>, 103),
       Arm(<<"OutputManagerError", "OutputManagerStorageError", "ValuesNotFound">>, 104),
       Arm(<<"OutputManagerError", "OutputManagerStorageError", "OutputAlreadySpent">>, 105),
       Arm(<<"OutputManagerError", "OutputManagerStorageError", "PendingTransactionNotFound">>, 106),
       Arm(<<"OutputManagerError", "OutputManagerStorageError", "DuplicateOutput">>, 107),
       Arm(<<"OutputManagerError", "OutputManagerStorageError", "ValueNotFound", "_">>, 108),
       Arm(<<"TransactionServiceError", "InvalidStateError">>, 200),
       Arm(<<"TransactionServiceError", "TransactionProtocolError", "_">>, 201),
       Arm(<<"TransactionServiceError", "RepeatedMessageError">>, 202),
       Arm(<<"TransactionServiceError", "TransactionDoesNotExistError">>, 203),
       Arm(<<"TransactionServiceError", "OutputManagerError", "_">>, 205),
       Arm(<<"TransactionServiceError", "OutputManagerError", "NotEnoughFunds">>, 204),
       Arm(<<"TransactionServiceError", "TransactionError", "_">>, 206),
       Arm(<<"TransactionServiceError", "TransactionStorageError", "DuplicateOutput">>, 207),
       Arm(<<"TransactionServiceError", "TransactionStorageError", "ValueNotFound", "_">>, 208),
       Arm(<<"NetAddressError", "ParseFailed">>, 300),
       Arm(<<"_">>, 999) >>

\* WalletArms without its last arm: the match is no longer exhaustive
WalletArms_NoCatchAll ==
    << Arm(<<"OutputManagerError", "NotEnoughFunds">>, 101),
       Arm(<<"TransactionServiceError", "OutputManagerError", "_">>, 205),
       Arm(<<"NetAddressError", "ParseFailed">>, 300) >>

\* error.rs impl From<WalletError> for LibWalletError: the arms in order
WalletArms ==
    << Arm(<<"OutputManagerError", "NotEnoughFunds">>, 101),
       Arm(<<"OutputManagerError", "IncompleteTransaction">>, 102),
       Arm(<<"OutputManagerError", "DuplicateOutput">>, 103),
       Arm(<<"OutputManagerError", "OutputManagerStorageError", "ValuesNotFound">>, 104),
       Arm(<<"OutputManagerError", "OutputManagerStorageError", "OutputAlreadySpent">>, 105),
       Arm(<<"OutputManagerError", "OutputManagerStorageError", "PendingTransactionNotFound">>, 106),
       Arm(<<"OutputManagerError", "OutputManagerStorageError", "DuplicateOutput">>, 107),
       Arm(<<"OutputManagerError", "OutputManagerStorageError", "ValueNotFound", "_">>, 108),
       Arm(<<"TransactionServiceError", "InvalidStateError">>, 200),
       Arm(<<"TransactionServiceError", "TransactionProtocolError", "_">>, 201),
       Arm(<<"TransactionServiceError", "RepeatedMessageError">>, 202),
       Arm(<<"TransactionServiceError", "TransactionDoesNotExistError">>, 203),
       Arm(<<"TransactionServiceError", "OutputManagerError", "NotEnoughFunds">>, 204),
       Arm(<<"TransactionServiceError", "OutputManagerError", "_">>, 205),
       Arm(<<"TransactionServiceError", "TransactionError", "_">>, 206),
       Arm(<<"TransactionServiceError", "TransactionStorageError", "DuplicateOutput">>, 207),
       Arm(<<"TransactionServiceError", "TransactionStorageError", "ValueNotFound", "_">>, 208),
       Arm(<<"NetAddressError", "ParseFailed">>, 300),
       Arm(<<"_">>, 999) >>

\* error.rs impl From<HexError> for LibWalletError
HexArms ==
    << Arm(<<"LengthError">>, 400),
       Arm(<<"HexConversionError">>, 401),
       Arm(<<"InvalidCharacter", "_">>, 402),
       Arm(<<"_">>, 999) >>

\* ByteArrayArms with the catch-all code given to a mapped variant
ByteArrayArms_Reused999 ==
    << Arm(<<"IncorrectLength">>, 999),
       Arm(<<"ConversionError", "_">>, 404),
       Arm(<<"_">>, 999) >>

\* error.rs impl From<ByteArrayError> for LibWalletError
ByteArrayArms ==
    << Arm(<<"IncorrectLength">>, 403),
       Arm(<<"ConversionError", "_">>, 404),
       Arm(<<"_">>, 999) >>

\* `match e { .. }`: the first arm whose pattern matches e is taken and
\* gives the LibWalletError; the result is the set of records returned
\* (one, or none if no arm matches).
Taken(arms, e) ==
    {i \in 1..Len(arms) : Matches(arms[i].pat, e) /\ \A j \in 1..(i - 1) : ~Matches(arms[j].pat, e)}

\* LibWalletError whose message renders the wrapped error, not the whole one
LibWalletError_InnerMessage(arms, e) ==
    {[code |-> arms[i].code, message |-> IF Len(e) > 1 THEN Debug(Tail(e)) ELSE Debug(e)] :
       i \in Taken(arms, e)}

\* `Self { code, message: format!("{:?}", e) }` of the arm taken
LibWalletError(arms, e) == {[code |-> arms[i].code, message |-> Debug(e)] : i \in Taken(arms, e)}

from_WalletError(w) == LibWalletError(WalletArms, w)
from_HexError(h) == LibWalletError(HexArms, h)
from_ByteArrayError(b) == LibWalletError(ByteArrayArms, b)

Converted(family, e, result) == [family |-> family, error |-> e, result |-> result]

\* one conversion `LibWalletError::from(e)`, recorded in errlog
convert_WalletError(w) ==
    /\ Len(errlog) < MaxConv
    /\ errlog' = Append(errlog, Converted("WalletError", w, from_WalletError(w)))
    /\ UNCHANGED <<heap, held, call, engines, twin, threads>>

convert_HexError(h) ==
    /\ Len(errlog) < MaxConv
    /\ errlog' = Append(errlog, Converted("HexError", h, from_HexError(h)))
    /\ UNCHANGED <<heap, held, call, engines, twin, threads>>

convert_ByteArrayError(b) ==
    /\ Len(errlog) < MaxConv
    /\ errlog' = Append(errlog, Converted("ByteArrayError", b, from_ByteArrayError(b)))
    /\ UNCHANGED <<heap, held, call, engines, twin, threads>>

(***************************** the handle runs *****************************)
\* what the caller passes in a run of the whole interface
SpecSecretKeys == {1}
SpecArrays == {to_vec(<<>>), PublicKey_to_vec(from_secret_key(1)), Run(c_uint(KeyLen), 255)}

HexStrings == {[i \in 1..(2 * KeyLen) |-> IF i = 2 THEN "6" ELSE "0"],
               <<"0", "0">>, <<"z">>, <<BadByte>>}
HexPtrs == {NullPtr} \cup {Ptr(x) : x \in HexStrings}
AliasPtrs == {NullPtr, Ptr(<<"a">>), Ptr(<<BadByte>>)}
AddressPtrs == {NullPtr, Ptr(IpAddress), Ptr(OnionAddress), Ptr(NotAnAddress), Ptr(<<BadByte>>)}
NamePtrs == {NullPtr, Ptr(<<"db">>), Ptr(<<BadByte>>)}
\* the three strings of comms_config_create, at most one of them not well
\* formed, and an address that is not well formed next to a null name
ConfigStrings ==
    {<<a, Ptr(<<"db">>), Ptr(<<"db">>)>> : a \in AddressPtrs}
      \cup {<<Ptr(<<BadByte>>), NullPtr, Ptr(<<"db">>)>>}
      \cup {<<Ptr(IpAddress), d, Ptr(<<"db">>)>> : d \in NamePtrs}
      \cup {<<Ptr(IpAddress), Ptr(<<"db">>), d>> : d \in NamePtrs}
PeerAddressPtrs == {NullPtr, Ptr(IpAddress), Ptr(<<BadByte>>)}
SmallPositions == {c_uint(n) : n \in 0..MaxLen}
CollectionPositions == {c_uint(n) : n \in 0..TestContacts} \cup {UIntMax}
TxIds == 1..3
\* the function the caller registers
Callbacks == {"callback"}
\* an engine call is made, and can fail, only on a wallet
Outcomes(wallet) == IF wallet = NULL THEN {TRUE} ELSE BOOLEAN

Init ==
    /\ heap = [a \in 1..MaxAddr |-> Free]
    /\ held = {}
    /\ call = Idle
    /\ errlog = <<>>
    /\ engines = [a \in 1..MaxAddr |-> Stopped]
    /\ twin = NoTwin
    /\ threads = NoThreads

Next ==
    \/ resume
    \/ \E h \in Handles("String") : string_destroy(h)
    \/ \E m \in SpecArrays : byte_vector_create(Ptr(m), m.len)
    \/ byte_vector_create(NullPtr, c_uint(1))
    \/ \E h \in Handles("ByteVector") : byte_vector_destroy(h)
    \/ \E h \in Handles("ByteVector") : byte_vector_get_length(h)
    \/ \E h \in Handles("ByteVector"), p \in SmallPositions : byte_vector_get_at(h, p)
    \/ \E h \in Handles("ByteVector") : public_key_create(h)
    \/ \E h \in Handles("PublicKey") : public_key_destroy(h)
    \/ \E h \in Handles("PublicKey") : public_key_get_bytes(h)
    \/ \E h \in Handles("PrivateKey") : public_key_from_private_key(h)
    \/ \E k \in HexPtrs : public_key_from_hex(k)
    \/ \E h \in Handles("ByteVector") : private_key_create(h)
    \/ \E h \in Handles("PrivateKey") : private_key_destroy(h)
    \/ \E h \in Handles("PrivateKey") : private_key_get_bytes(h)
    \/ \E ok \in BOOLEAN, k \in SpecSecretKeys : private_key_generate(ok, k)
    \/ \E k \in HexPtrs : private_key_from_hex(k)
    \/ \E a \in AliasPtrs, h \in Handles("PublicKey") : contact_create(a, h)
    \/ \E h \in Handles("Contact") : contact_get_alias(h)
    \/ \E h \in Handles("Contact") : contact_get_public_key(h)
    \/ \E h \in Handles("Contact") : contact_destroy(h)
    \/ \E h \in Handles("Contacts") : contacts_get_length(h)
    \/ \E h \in Handles("Contacts"), p \in CollectionPositions : contacts_get_at(h, p)
    \/ \E h \in Handles("Contacts") : contacts_destroy(h)
    \/ \E h \in Handles("CompletedTransactions") : completed_transactions_get_length(h)
    \/ \E h \in Handles("CompletedTransactions"), p \in SmallPositions :
          completed_transactions_get_at(h, p)
    \/ \E h \in Handles("CompletedTransactions") : completed_transactions_destroy(h)
    \/ \E h \in Handles("PendingOutboundTransactions") :
          pending_outbound_transactions_get_length(h)
    \/ \E h \in Handles("PendingOutboundTransactions"), p \in SmallPositions :
          pending_outbound_transactions_get_at(h, p)
    \/ \E h \in Handles("PendingOutboundTransactions") :
          pending_outbound_transactions_destroy(h)
    \/ \E h \in Handles("PendingInboundTransactions") :
          pending_inbound_transactions_get_length(h)
    \/ \E h \in Handles("PendingInboundTransactions"), p \in SmallPositions :
          pending_inbound_transactions_get_at(h, p)
    \/ \E h \in Handles("PendingInboundTransactions") :
          pending_inbound_transactions_destroy(h)
    \/ \E h \in Handles("CompletedTransaction") : completed_transaction_get_transaction_id(h)
    \/ \E h \in Handles("CompletedTransaction") :
          completed_transaction_get_destination_public_key(h)
    \/ \E h \in Handles("CompletedTransaction") : completed_transaction_get_amount(h)
    \/ \E h \in Handles("CompletedTransaction") : completed_transaction_get_fee(h)
    \/ \E h \in Handles("CompletedTransaction") :
          completed_transaction_get_transaction_timestamp(h)
    \/ \E h \in Handles("CompletedTransaction") : completed_transaction_destroy(h)
    \/ \E h \in Handles("PendingOutboundTransaction") :
          pending_outbound_transaction_get_transaction_id(h)
    \/ \E h \in Handles("PendingOutboundTransaction") :
          pending_outbound_transaction_get_destination_public_key(h)
    \/ \E h \in Handles("PendingOutboundTransaction") :
          pending_outbound_transaction_get_amount(h)
    \/ \E h \in Handles("PendingOutboundTransaction") :
          pending_outbound_transaction_get_transaction_timestamp(h)
    \/ \E h \in Handles("PendingOutboundTransaction") : pending_outbound_transaction_destroy(h)
    \/ \E h \in Handles("PendingInboundTransaction") :
          pending_inbound_transaction_get_transaction_id(h)
    \/ \E h \in Handles("PendingInboundTransaction") :
          pending_inbound_transaction_get_source_public_key(h)
    \/ \E h \in Handles("PendingInboundTransaction") :
          pending_inbound_transaction_get_amount(h)
    \/ \E h \in Handles("PendingInboundTransaction") :
          pending_inbound_transaction_get_transaction_timestamp(h)
    \/ \E h \in Handles("PendingInboundTransaction") : pending_inbound_transaction_destroy(h)
    \/ \E s \in ConfigStrings, h \in Handles("PrivateKey"), ok \in BOOLEAN :
          comms_config_create(s[1], s[2], s[3], h, ok)
    \/ \E h \in Handles("CommsConfig") : comms_config_destroy(h)
    \/ \E h \in Handles("CommsConfig") : \E rt \in Outcomes(h), ok \in Outcomes(h) : wallet_create(h, rt, ok)
    \/ \E h \in Handles("Wallet") : \E ok \in Outcomes(h) : wallet_generate_test_data(h, ok)
    \/ \E h \in Handles("Wallet"), k \in Handles("PublicKey"), a \in PeerAddressPtrs : \E ok \in Outcomes(h) : wallet_add_base_node_peer(h, k, a, ok)
    \/ \E h \in Handles("Wallet"), c \in Handles("Contact") : \E ok \in Outcomes(h) :
          wallet_add_contact(h, c, ok)
    \/ \E h \in Handles("Wallet"), c \in Handles("Contact") : \E ok \in Outcomes(h) :
          wallet_remove_contact(h, c, ok)
    \/ \E h \in Handles("Wallet"), k \in Handles("PublicKey") : \E ok \in Outcomes(h) :
          wallet_send_transaction(h, k, 1, 1, ok)
    \/ \E h \in Handles("Wallet"), cb \in Callbacks : \E ok \in BOOLEAN :
          wallet_call_back_register_received_transaction(h, cb, ok)
    \/ \E h \in Handles("Wallet"), cb \in Callbacks : \E ok \in BOOLEAN :
          wallet_call_back_register_received_transaction_reply(h, cb, ok)
    \/ \E h \in Handles("Wallet") : \E ok \in Outcomes(h) : wallet_get_balance(h, ok)
    \/ \E h \in Handles("Wallet") : \E ok \in Outcomes(h) : wallet_get_contacts(h, ok)
    \/ \E h \in Handles("Wallet") : \E ok \in Outcomes(h) : wallet_get_completed_transactions(h, ok)
    \/ \E h \in Handles("Wallet") : \E ok \in Outcomes(h) :
          wallet_get_pending_inbound_transactions(h, ok)
    \/ \E h \in Handles("Wallet") : \E ok \in Outcomes(h) :
          wallet_get_pending_outbound_transactions(h, ok)
    \/ \E h \in Handles("Wallet"), id \in TxIds : \E ok \in Outcomes(h) :
          wallet_get_completed_transaction_by_id(h, id, ok)
    \/ \E h \in Handles("Wallet"), id \in TxIds : \E ok \in Outcomes(h) :
          wallet_get_pending_inbound_transaction_by_id(h, id, ok)
    \/ \E h \in Handles("Wallet"), id \in TxIds : \E ok \in Outcomes(h) :
          wallet_get_pending_outbound_transaction_by_id(h, id, ok)
    \/ \E h \in Handles("Wallet") : \E ok \in Outcomes(h) : wallet_destroy(h, ok)


(************************* the byte-vector runs ****************************)
\* positions around every length in use
Positions == {c_uint(n) : n \in 0..(MaxLen + 1)} \cup BigLens \cup {c_uint(IntMax - 1)}

\* the counts passed with the memory m: its length, and the short counts
\* within it.  A count below the length is the count of an array that other
\* bytes follow in memory.
Counts(m) == {m.len} \cup {c_uint(k) : k \in {j \in 0..MaxLen : ~ULess(m.len, c_uint(j))}}

NextBytes ==
    \/ resume
    \/ \E m \in SmallArrays \cup BigArrays : \E n \in Counts(m) : byte_vector_create(Ptr(m), n)
    \/ \E n \in 0..1 : byte_vector_create(NullPtr, c_uint(n))
    \/ \E h \in Handles("ByteVector") : byte_vector_destroy(h)
    \/ \E h \in Handles("ByteVector") : byte_vector_get_length(h)
    \/ \E h \in Handles("ByteVector"), p \in Positions : byte_vector_get_at(h, p)

Spec == Init /\ [][Next]_vars

SpecBytes == Init /\ [][NextBytes]_vars

(*************************** the error-mapper runs *************************)
NextErr ==
    \/ \E w \in WalletErrors : convert_WalletError(w)
    \/ \E h \in HexErrors : convert_HexError(h)
    \/ \E b \in ByteArrayErrors : convert_ByteArrayError(b)

SpecErr == Init /\ [][NextErr]_vars

\* Runs of the callback registry and dispatcher.  The caller has built a
\* comms configuration and released the key it was built from; it creates
\* wallets, registers one of two functions for either event kind, and
\* destroys the transactions its callbacks are handed, while the engine of
\* a wallet emits events and its delivery thread delivers them.
TestConfig ==
    CommsConfig(1, parse_NetAddress(IpAddress).val, <<"db">>, <<"db">>)

EventCallbacks == {"callback", "other_callback"}

InitEvents ==
    /\ heap = [a \in 1..MaxAddr |-> IF a = MaxAddr THEN TestConfig ELSE Free]
    /\ held = {MaxAddr}
    /\ call = Idle
    /\ errlog = <<>>
    /\ engines = [a \in 1..MaxAddr |-> Stopped]
    /\ twin = NoTwin
    /\ threads = NoThreads

NextEvents ==
    \/ resume
    \/ \E h \in Handles("CommsConfig") : \E rt \in Outcomes(h), ok \in Outcomes(h) :
          wallet_create(h, rt, ok)
    \/ \E h \in Handles("CommsConfig") : comms_config_destroy(h)
    \/ \E h \in Handles("Wallet"), f \in EventCallbacks : \E ok \in BOOLEAN :
          wallet_call_back_register_received_transaction(h, f, ok)
    \/ \E h \in Handles("Wallet"), f \in EventCallbacks : \E ok \in BOOLEAN :
          wallet_call_back_register_received_transaction_reply(h, f, ok)
    \/ \E w \in Addr, kind \in EventKinds : emit(w, kind)
    \/ \E w \in Addr : take(w)
    \/ \E w \in Addr : deliver(w)
    \/ \E w \in Addr : stop(w)
    \/ \E h \in Handles("PendingInboundTransaction") : pending_inbound_transaction_destroy(h)
    \/ \E h \in Handles("CompletedTransaction") : completed_transaction_destroy(h)
    \/ \E h \in Handles("Wallet") : \E ok \in Outcomes(h) : wallet_destroy(h, ok)

SpecEvents == InitEvents /\ [][NextEvents]_vars

\* Runs of the contact store and the collections taken from it, on a heap
\* of one more cell: the caller holds a wallet in which two contacts have
\* been saved, and a contact of its own with the key of the first.  It adds
\* and removes contacts, takes and reads collections, sends, and receives
\* transactions through a registered function.
StoredContacts ==
    <<[alias |-> <<"b">>, public_key |-> TestKey(1)],
      [alias |-> <<"c">>, public_key |-> TestKey(2)]>>

InitStore ==
    /\ heap = [a \in 1..(MaxAddr + 1) |->
                CASE a = 1 -> [Wallet(TestConfig.val) EXCEPT !.val.contacts = StoredContacts]
                  [] a = 2 -> Contact(<<"a">>, TestKey(1))
                  [] OTHER -> Free]
    /\ held = {1, 2}
    /\ call = Idle
    /\ errlog = <<>>
    /\ engines = [a \in 1..(MaxAddr + 1) |-> IF a = 1 THEN Started ELSE Stopped]
    /\ twin = NoTwin
    /\ threads = NoThreads

NextStore ==
    \/ resume
    \/ \E h \in Handles("Wallet"), c \in Handles("Contact") : \E ok \in Outcomes(h) :
          wallet_add_contact(h, c, ok)
    \/ \E h \in Handles("Wallet"), c \in Handles("Contact") : \E ok \in Outcomes(h) :
          wallet_remove_contact(h, c, ok)
    \/ \E h \in Handles("Wallet") : \E ok \in Outcomes(h) : wallet_get_contacts(h, ok)
    \/ \E h \in Handles("Wallet") : \E ok \in Outcomes(h) :
          wallet_get_pending_inbound_transactions(h, ok)
    \/ \E h \in Handles("Contacts") : contacts_get_length(h)
    \/ \E h \in Handles("Contacts"), p \in SmallPositions : contacts_get_at(h, p)
    \/ \E h \in Handles("Contacts") : contacts_destroy(h)
    \/ \E h \in Handles("PendingInboundTransactions") :
          pending_inbound_transactions_destroy(h)
    \/ \E h \in Handles("Contact") : contact_destroy(h)
    \/ \E h \in Handles("Contact") : contact_get_public_key(h)
    \/ \E h \in Handles("PublicKey") : public_key_destroy(h)
    \/ \E h \in Handles("Wallet"), k \in Handles("PublicKey") : \E ok \in Outcomes(h) :
          wallet_send_transaction(h, k, 1, 1, ok)
    \/ \E h \in Handles("Wallet") \ {NULL} :
          wallet_call_back_register_received_transaction(h, "callback", TRUE)
    \/ \E w \in Addr : emit(w, "received")
    \/ \E w \in Addr : take(w)
    \/ \E w \in Addr : deliver(w)
    \/ \E w \in Addr : stop(w)
    \/ \E h \in Handles("PendingInboundTransaction") : pending_inbound_transaction_destroy(h)
    \/ \E h \in Handles("Wallet") : \E ok \in Outcomes(h) : wallet_destroy(h, ok)

SpecStore == InitStore /\ [][NextStore]_vars

\* the collection types, and the type of the elements of each
CollectionTypes ==
    {"Contacts", "CompletedTransactions", "PendingInboundTransactions",
     "PendingOutboundTransactions"}

ElementOf(type) ==
    CASE type = "Contacts" -> [alias |-> <<"a">>, public_key |-> TestKey(1)]
      [] type = "CompletedTransactions" -> TestData(Wallet(TestConfig.val).val).completed[1]
      [] type = "PendingInboundTransactions" ->
           TestData(Wallet(TestConfig.val).val).pending_inbound[1]
      [] type = "PendingOutboundTransactions" ->
           TestData(Wallet(TestConfig.val).val).pending_outbound[1]

\* Runs on a collection of a length around the sign bit of a 32-bit count:
\* the caller holds a collection of 2^31 - 1, 2^31, 2^31 + 1 or 2^32 - 1
\* equal elements, taken from a wallet whose store held that many, and asks
\* for its length and for elements at positions from both ends.
ViewPositions ==
    {c_uint(0), c_uint(1), c_uint(IntMax - 1)} \cup BigLens \cup {[hi |-> 1, lo |-> IntMax - 1]}

InitViews ==
    /\ \E type \in CollectionTypes, n \in BigLens :
         heap = [a \in 1..MaxAddr |->
                   IF a = 1 THEN BigCollection(type, ElementOf(type), n) ELSE Free]
    /\ held = {1}
    /\ call = Idle
    /\ errlog = <<>>
    /\ engines = [a \in 1..MaxAddr |-> Stopped]
    /\ twin = NoTwin
    /\ threads = NoThreads

NextViews ==
    \/ resume
    \/ \E h \in Handles("Contacts") : contacts_get_length(h)
    \/ \E h \in Handles("Contacts"), p \in ViewPositions : contacts_get_at(h, p)
    \/ \E h \in Handles("Contacts") : contacts_destroy(h)
    \/ \E h \in Handles("Contact") : contact_destroy(h)
    \/ \E h \in Handles("CompletedTransactions") : completed_transactions_get_length(h)
    \/ \E h \in Handles("CompletedTransactions"), p \in ViewPositions :
          completed_transactions_get_at(h, p)
    \/ \E h \in Handles("CompletedTransactions") : completed_transactions_destroy(h)
    \/ \E h \in Handles("CompletedTransaction") : completed_transaction_destroy(h)
    \/ \E h \in Handles("PendingOutboundTransactions") :
          pending_outbound_transactions_get_length(h)
    \/ \E h \in Handles("PendingOutboundTransactions"), p \in ViewPositions :
          pending_outbound_transactions_get_at(h, p)
    \/ \E h \in Handles("PendingOutboundTransactions") :
          pending_outbound_transactions_destroy(h)
    \/ \E h \in Handles("PendingOutboundTransaction") : pending_outbound_transaction_destroy(h)
    \/ \E h \in Handles("PendingInboundTransactions") :
          pending_inbound_transactions_get_length(h)
    \/ \E h \in Handles("PendingInboundTransactions"), p \in ViewPositions :
          pending_inbound_transactions_get_at(h, p)
    \/ \E h \in Handles("PendingInboundTransactions") :
          pending_inbound_transactions_destroy(h)
    \/ \E h \in Handles("PendingInboundTransaction") : pending_inbound_transaction_destroy(h)

SpecViews == InitViews /\ [][NextViews]_vars

(******************************* properties ********************************)
\* the arguments of a call that are handles, and those that are foreign pointers
HandleFields ==
    {"ptr", "bytes", "vec", "pk", "secret_key", "public_key", "dest_public_key", "contact", "contacts",
     "transactions", "transaction", "wc", "config", "wallet"}
ForeignFields == {"byte_array", "key", "alias", "address", "database_name", "datastore_path"}

HandleArgs(c) == {c.args[f] : f \in DOMAIN c.args \cap HandleFields}
NullArgs(c) ==
    {f \in DOMAIN c.args \cap HandleFields : c.args[f] = NULL}
      \cup {f \in DOMAIN c.args \cap ForeignFields : c.args[f].is_null}

Live(h, a) == h[a] # Free

ErrArms(family) ==
    CASE family = "WalletError" -> WalletArms
      [] family = "HexError" -> HexArms
      [] family = "ByteArrayError" -> ByteArrayArms

\* the functions of the boundary, by what they do with handles
DestroyOps ==
    {"string_destroy", "byte_vector_destroy", "public_key_destroy", "private_key_destroy",
     "contact_destroy", "contacts_destroy", "completed_transactions_destroy",
     "pending_outbound_transactions_destroy", "pending_inbound_transactions_destroy",
     "completed_transaction_destroy", "pending_outbound_transaction_destroy",
     "pending_inbound_transaction_destroy", "comms_config_destroy", "wallet_destroy"}
Constructors ==
    {"byte_vector_create", "public_key_create", "public_key_from_private_key",
     "public_key_from_hex", "private_key_create", "private_key_from_hex",
     "contact_create", "comms_config_create", "wallet_create"}
LengthAccessors ==
    {"byte_vector_get_length", "contacts_get_length", "completed_transactions_get_length",
     "pending_outbound_transactions_get_length", "pending_inbound_transactions_get_length"}
NumberAccessors ==
    {"byte_vector_get_at", "wallet_get_balance",
     "completed_transaction_get_transaction_id", "completed_transaction_get_amount",
     "completed_transaction_get_fee", "completed_transaction_get_transaction_timestamp",
     "pending_outbound_transaction_get_transaction_id",
     "pending_outbound_transaction_get_amount",
     "pending_outbound_transaction_get_transaction_timestamp",
     "pending_inbound_transaction_get_transaction_id",
     "pending_inbound_transaction_get_amount",
     "pending_inbound_transaction_get_transaction_timestamp"}
HandleAccessors ==
    {"public_key_get_bytes", "private_key_get_bytes", "contact_get_public_key",
     "contacts_get_at", "completed_transactions_get_at",
     "pending_outbound_transactions_get_at", "pending_inbound_transactions_get_at",
     "completed_transaction_get_destination_public_key",
     "pending_outbound_transaction_get_destination_public_key",
     "pending_inbound_transaction_get_source_public_key"}
Accessors == LengthAccessors \cup NumberAccessors \cup HandleAccessors \cup {"contact_get_alias"}
WalletQueries ==
    {"wallet_get_contacts", "wallet_get_completed_transactions",
     "wallet_get_pending_inbound_transactions", "wallet_get_pending_outbound_transactions",
     "wallet_get_completed_transaction_by_id",
     "wallet_get_pending_inbound_transaction_by_id",
     "wallet_get_pending_outbound_transaction_by_id"}
HandleReturning ==
    Constructors \cup HandleAccessors \cup WalletQueries
      \cup {"contact_get_alias", "private_key_generate"}

\* the call c has returned a handle
ReturnsHandle(c) == c.op \in HandleReturning /\ c.outcome = "ok" /\ c.ret # NULL

\* C1: a handle returned by a call is a fresh allocation, distinct from
\* every handle the caller holds, and the call changes no other allocation;
\* every handle a call is given, and every handle the caller holds after a
\* call, refers to an allocation that has not been released.
C1_FreshAndLive ==
    [][ /\ ReturnsHandle(call')
             => /\ heap[call'.ret] = Free
                /\ call'.ret \notin held
                /\ Live(heap', call'.ret)
                /\ held' = held \cup {call'.ret}
                /\ \A a \in Addr \ {call'.ret} : heap'[a] = heap[a]
        /\ \A a \in HandleArgs(call') \ {NULL} : Live(heap, a)
        /\ \A a \in held' : Live(heap', a) ]_vars

\* contact_get_public_key has returned a key handle while the contact it
\* was read from is still held
C1_Witness ==
    /\ call.op = "contact_get_public_key"
    /\ call.args.contact # NULL
    /\ call.ret # NULL /\ call.ret # call.args.contact
    /\ {call.ret, call.args.contact} \subseteq held
    /\ heap[call.ret] = PublicKey(heap[call.args.contact].val.public_key)

\* C2: a destroy function given a live non-null handle releases that
\* allocation and no other (so byte_vector_destroy after byte_vector_create
\* leaves the vector released).
C2_DestroyReleases ==
    [][ (call'.op \in DestroyOps /\ HandleArgs(call') # {NULL})
          => \E h \in HandleArgs(call') :
               /\ call'.outcome = "ok"
               /\ Live(heap, h)
               /\ heap' = [heap EXCEPT ![h] = Free] ]_vars

\* C3: a destroy function given null does not fault, releases nothing and
\* leaves the handles and the engine as they were.
C3_DestroyNull ==
    [][ (call'.op \in DestroyOps /\ HandleArgs(call') = {NULL})
          => /\ call'.outcome = "ok"
             /\ call'.engine = <<>>
             /\ heap' = heap /\ held' = held ]_vars

\* C4: a constructor given null for any of its pointers returns null,
\* creates no handle and changes none.
C4_ConstructorNull ==
    [][ (call'.op \in Constructors /\ NullArgs(call') # {})
          => /\ call'.outcome = "ok"
             /\ call'.ret = NULL
             /\ heap' = heap /\ held' = held ]_vars

\* C5: no call of the boundary unwinds.
C5_NoPanic == call.outcome # "panic"

\* C6: an accessor given a null handle returns its zero value (0 for a
\* length or a number, null for a key, bytes or element, a new empty string
\* for contact_get_alias), calls no engine operation and changes no
\* allocation the caller holds.
C6_AccessorNull ==
    [][ (call'.op \in Accessors /\ HandleArgs(call') = {NULL})
          => /\ call'.outcome = "ok"
             /\ call'.engine = <<>>
             /\ held \subseteq held'
             /\ \A a \in Addr : Live(heap, a) => heap'[a] = heap[a]
             /\ CASE call'.op \in LengthAccessors -> call'.ret = c_uint(0) /\ heap' = heap
                  [] call'.op \in NumberAccessors -> call'.ret = 0 /\ heap' = heap
                  [] call'.op \in HandleAccessors -> call'.ret = NULL /\ heap' = heap
                  [] OTHER -> /\ heap[call'.ret] = Free
                              /\ heap'[call'.ret] = String(<<>>) ]_vars

\* wallet_get_balance(null) has returned 0 while a wallet with a non-zero
\* balance is live
C6_Witness ==
    /\ call.op = "wallet_get_balance"
    /\ call.args.wallet = NULL
    /\ call.ret = 0 /\ call.engine = <<>>
    /\ \E a \in held : heap[a].type = "Wallet" /\ heap[a].val.balance # 0

\* C7: byte_vector_create on a non-null array b of n elements returns a
\* non-null handle h that holds a copy of b; byte_vector_get_length(h) is n
\* and byte_vector_get_at(h, i) is b[i] for every i below n.
C7_CreateThenRead ==
    /\ (call.op = "byte_vector_create" /\ ~call.args.byte_array.is_null
          /\ call.args.byte_array.mem.len = call.args.element_count)
         => /\ call.outcome = "ok"
            /\ call.ret # NULL
            /\ heap[call.ret] = ByteVector(call.args.byte_array.mem)
    /\ (call.op = "byte_vector_get_length" /\ call.args.vec # NULL)
         => /\ call.outcome = "ok"
            /\ call.ret = heap[call.args.vec].val.len
    /\ (call.op = "byte_vector_get_at" /\ call.args.ptr # NULL
          /\ ULess(call.args.position, heap[call.args.ptr].val.len))
         => /\ call.outcome = "ok"
            /\ call.ret = ElemAt(heap[call.args.ptr].val, call.args.position)

\* C8: byte_vector_get_at returns 0 and changes nothing when the handle is
\* null or the position is not below the vector's length (so for every
\* position on an empty vector); byte_vector_get_length(null) is 0.
C8_OutOfRangeReadsZero ==
    [][ /\ (call'.op = "byte_vector_get_at"
              /\ (call'.args.ptr = NULL
                    \/ ~ULess(call'.args.position, get_length(call'.args.ptr))))
             => /\ call'.outcome = "ok"
                /\ call'.ret = 0
                /\ heap' = heap /\ held' = held
        /\ (call'.op = "byte_vector_get_length" /\ call'.args.vec = NULL)
             => /\ call'.outcome = "ok"
                /\ call'.ret = c_uint(0)
                /\ heap' = heap /\ held' = held ]_vars

\* C9: every conversion of a WalletError, HexError or ByteArrayError returns
\* exactly one (code, message) record, and two conversions of the same error
\* value return the same record.
C9_MappingTotalDeterministic ==
    /\ \A i \in 1..Len(errlog) : Cardinality(errlog[i].result) = 1
    /\ \A i, j \in 1..Len(errlog) :
         (errlog[i].family = errlog[j].family /\ errlog[i].error = errlog[j].error)
           => errlog[i].result = errlog[j].result

\* an unnamed WalletError variant has been converted twice
C9_Witness ==
    /\ Len(errlog) = 2
    /\ errlog[1].family = "WalletError" /\ errlog[1].error = <<OtherVariant>>
    /\ errlog[2].family = "WalletError" /\ errlog[2].error = <<OtherVariant>>
    /\ \E r \in errlog[2].result : r.code = 999

\* C10: in each family a value that no explicit arm matches gets the code
\* 999, and a value that an explicit arm matches never gets 999.
C10_CatchAllCode ==
    \A i \in 1..Len(errlog) :
      LET arms == ErrArms(errlog[i].family)
          explicit == \E k \in 1..Len(arms) :
                         arms[k].pat # <<"_">> /\ Matches(arms[k].pat, errlog[i].error)
      IN  /\ errlog[i].result # {}
          /\ \A r \in errlog[i].result : (r.code = 999) <=> ~explicit

\* an unnamed HexError variant got 999 and a mapped ByteArrayError did not
C10_Witness ==
    /\ Len(errlog) = 2
    /\ errlog[1].family = "HexError" /\ errlog[1].error = <<OtherVariant>>
    /\ \E r \in errlog[1].result : r.code = 999
    /\ errlog[2].family = "ByteArrayError" /\ errlog[2].error = <<"IncorrectLength">>
    /\ \E r \in errlog[2].result : r.code = 403

\* the band of codes of the family an error value was raised in
Band(family, e) ==
    IF family = "WalletError"
    THEN CASE e[1] = "OutputManagerError" -> 101..108
           [] e[1] = "TransactionServiceError" -> 200..208
           [] e[1] = "NetAddressError" -> {300}
           [] OTHER -> {}
    ELSE 400..404

\* C11: a code other than the catch-all lies in the band of the family the
\* error was raised in: 101..108 for a top-level output-manager error,
\* 200..208 for a transaction-service error (also one that wraps an
\* output-manager error), 300 for a net-address error, 400..404 for hex and
\* byte-array errors.
C11_CodeBands ==
    \A i \in 1..Len(errlog) :
      /\ errlog[i].result # {}
      /\ \A r \in errlog[i].result :
           r.code # 999 => r.code \in Band(errlog[i].family, errlog[i].error)

\* a transaction-service error that wraps NotEnoughFunds got 204 and the
\* top-level NotEnoughFunds got 101
C11_Witness ==
    /\ Len(errlog) = 2
    /\ errlog[1].family = "WalletError"
    /\ errlog[1].error = <<"TransactionServiceError", "OutputManagerError", "NotEnoughFunds">>
    /\ \E r \in errlog[1].result : r.code = 204
    /\ errlog[2].family = "WalletError"
    /\ errlog[2].error = <<"OutputManagerError", "NotEnoughFunds">>
    /\ \E r \in errlog[2].result : r.code = 101

\* C12: for every error, mapped or not, the message of the LibWalletError
\* is the debug rendering of the whole error value.
C12_MessageIsDebug ==
    \A i \in 1..Len(errlog) :
      /\ errlog[i].result # {}
      /\ \A r \in errlog[i].result : r.message = Debug(errlog[i].error)

\* a mapped nested error and an unmapped nested error, each with the
\* rendering of the whole value as message
C12_Witness ==
    /\ Len(errlog) = 2
    /\ errlog[1].error = <<"OutputManagerError", "OutputManagerStorageError", "ValueNotFound", "a">>
    /\ \E r \in errlog[1].result :
         /\ r.code = 108
         /\ r.message = "OutputManagerError(OutputManagerStorageError(ValueNotFound(a)))"
    /\ errlog[2].error = <<"TransactionServiceError", OtherVariant>>
    /\ \E r \in errlog[2].result :
         r.code = 999 /\ r.message = "TransactionServiceError(OtherVariant)"

(***************************** collections *********************************)
CollectionLengthOps == LengthAccessors \ {"byte_vector_get_length"}
CollectionGetAtOps ==
    {"contacts_get_at", "completed_transactions_get_at",
     "pending_outbound_transactions_get_at", "pending_inbound_transactions_get_at"}

\* the collection a call was given
CollectionArg(c) ==
    IF "contacts" \in DOMAIN c.args THEN c.args.contacts ELSE c.args.transactions

\* the type of the elements `*_get_at` hands out
ElementType(op) ==
    CASE op = "contacts_get_at" -> "Contact"
      [] op = "completed_transactions_get_at" -> "CompletedTransaction"
      [] op = "pending_outbound_transactions_get_at" -> "PendingOutboundTransaction"
      [] op = "pending_inbound_transactions_get_at" -> "PendingInboundTransaction"

\* C20: for each of the four collection types, get_length of a null
\* collection is 0, and get_at returns null when the collection is null,
\* when it is empty, or when the position is not below its length, and
\* otherwise returns a non-null handle to a fresh copy of the element at
\* that position.  The four get_at compute `get_length(c) as c_int - 1`
\* (lib.rs:481, 544, 609, 674): for a collection of 2^31 elements the
\* subtraction overflows, and for a longer one the length reads as a
\* negative number and every position, valid ones included, is refused.
C20_CollectionBounds ==
    [][ /\ (call'.op \in CollectionLengthOps /\ CollectionArg(call') = NULL)
            => (call'.outcome = "ok" /\ call'.ret = c_uint(0))
        /\ call'.op \in CollectionGetAtOps
            => LET c == CollectionArg(call')
                   p == call'.args.position IN
               /\ call'.outcome = "ok"
               /\ IF c = NULL
                  THEN call'.ret = NULL /\ heap' = heap
                  ELSE IF heap[c].len = c_uint(0) \/ ~ULess(p, heap[c].len)
                  THEN call'.ret = NULL /\ heap' = heap
                  ELSE /\ call'.ret # NULL
                       /\ heap[call'.ret] = Free
                       /\ heap'[call'.ret] =
                            Boxed(ElementType(call'.op), collection_elem(c, p))
                       /\ heap'[c] = heap[c] ]_vars

CollectionQueries ==
    {"wallet_get_contacts", "wallet_get_completed_transactions",
     "wallet_get_pending_inbound_transactions", "wallet_get_pending_outbound_transactions"}

\* the step of a collection query on wallet w whose engine call succeeds
\* (ok) or fails
QueryStep(op, w, ok) ==
    CASE op = "wallet_get_contacts" -> wallet_get_contacts(w, ok)
      [] op = "wallet_get_completed_transactions" -> wallet_get_completed_transactions(w, ok)
      [] op = "wallet_get_pending_inbound_transactions" ->
           wallet_get_pending_inbound_transactions(w, ok)
      [] op = "wallet_get_pending_outbound_transactions" ->
           wallet_get_pending_outbound_transactions(w, ok)

\* the engine store a query reads, and the collection type it returns
StoreOf(op) ==
    CASE op = "wallet_get_contacts" -> "contacts"
      [] op = "wallet_get_completed_transactions" -> "completed"
      [] op = "wallet_get_pending_inbound_transactions" -> "pending_inbound"
      [] op = "wallet_get_pending_outbound_transactions" -> "pending_outbound"

CollectionType(op) ==
    CASE op = "wallet_get_contacts" -> "Contacts"
      [] op = "wallet_get_completed_transactions" -> "CompletedTransactions"
      [] op = "wallet_get_pending_inbound_transactions" -> "PendingInboundTransactions"
      [] op = "wallet_get_pending_outbound_transactions" -> "PendingOutboundTransactions"

\* C18: each of the four collection queries on a non-null wallet returns,
\* when the engine call succeeds, a non-null fresh collection whose length
\* is the number of elements the engine returned and whose i-th element
\* equals the engine's i-th element (an empty store gives a non-null
\* collection of length 0), and returns null exactly when the engine call
\* fails.
C18_QueryProjects ==
    [][ \A op \in CollectionQueries, w \in Addr, ok \in BOOLEAN :
          (/\ Live(heap, w) /\ heap[w].type = "Wallet"
           /\ call'.op = op /\ call'.args.wallet = w
           /\ QueryStep(op, w, ok))
            => LET engine_store == heap[w].val[StoreOf(op)] IN
               /\ call'.outcome = "ok"
               /\ (call'.ret = NULL) <=> ~ok
               /\ ok => /\ heap[call'.ret] = Free
                         /\ heap'[call'.ret].type = CollectionType(op)
                         /\ heap'[call'.ret].len = c_uint(Len(engine_store))
                         /\ Len(heap'[call'.ret].val) = Len(engine_store)
                         /\ \A i \in 1..Len(engine_store) :
                              heap'[call'.ret].val[i] = engine_store[i]
                         /\ heap'[w] = heap[w]
               /\ ~ok => heap' = heap ]_vars

\* the contacts of a wallet with test data have been fetched
C18_Witness ==
    /\ call.op = "wallet_get_contacts"
    /\ call.ret # NULL
    /\ heap[call.args.wallet].type = "Wallet"
    /\ heap[call.ret].len = c_uint(TestContacts)
    /\ heap[call.ret].val = heap[call.args.wallet].val.contacts

(************************ callbacks and events *****************************)
\* the delivery thread of wallet w ends the delivery of the event it took
\* (a wallet created in the cell of an older one starts an engine of its own,
\* which has emitted nothing: that step delivers no event)
Delivery(w) ==
    /\ engines[w].inflight # <<>>
    /\ engines'[w].inflight = <<>>
    /\ engines'[w].running
    /\ engines'[w].emitted = engines[w].emitted

\* a function was invoked for wallet w: its record of invocations grew
Invocation(w) ==
    /\ engines'[w].log # engines[w].log
    /\ engines'[w].log # <<>>

\* C13: every event of a kind whose slot holds a registered function causes
\* exactly one invocation of that function, with a non-null handle to a
\* freshly allocated transaction that becomes the caller's; an event of a
\* kind whose slot is empty causes no invocation and no error; no event is
\* delivered twice.
C13_OneInvocationPerEvent ==
    [][ \A w \in Addr :
          LET e == engines[w]
              log == engines'[w].log IN
          /\ Delivery(w)
              => LET ev == e.inflight[1] IN
                 IF e[ev.kind] # "none"
                 THEN /\ Len(log) = Len(e.log) + 1
                      /\ SubSeq(log, 1, Len(e.log)) = e.log
                      /\ log[Len(log)].id = ev.id
                      /\ log[Len(log)].kind = ev.kind
                      /\ log[Len(log)].callback = e[ev.kind]
                      /\ log[Len(log)].tx # NULL
                      /\ heap[log[Len(log)].tx] = Free
                      /\ heap'[log[Len(log)].tx] = EventTransaction(ev)
                      /\ held' = held \cup {log[Len(log)].tx}
                      /\ call' = call
                 ELSE /\ log = e.log
                      /\ UNCHANGED <<heap, held, call>>
          /\ Invocation(w) => Delivery(w)
          /\ \A i, j \in 1..Len(log) : log[i].id = log[j].id => i = j ]_vars

\* of two events one was delivered to the registered function, which got
\* the handle of the transaction received, and the other, for which no
\* function was registered, was dropped
C13_Witness ==
    \E w \in Addr :
      /\ engines[w].running
      /\ engines[w].emitted = 2
      /\ engines[w].queue = <<>> /\ engines[w].inflight = <<>>
      /\ Len(engines[w].log) = 1
      /\ engines[w].log[1].kind = "received"
      /\ engines[w].log[1].tx \in held
      /\ heap[engines[w].log[1].tx].type = "PendingInboundTransaction"
      /\ heap[engines[w].log[1].tx].val.tx_id = engines[w].log[1].id

\* C14: the functions are invoked in the order the engine emitted the
\* events: an event is delivered before every event emitted after it, and
\* every invocation is for one event.
C14_EmissionOrder ==
    \A w \in Addr :
      LET e == engines[w]
          waiting == e.inflight \o e.queue IN
      /\ \A i, j \in 1..Len(e.log) : i < j => e.log[i].id < e.log[j].id
      /\ \A i, j \in 1..Len(waiting) : i < j => waiting[i].id < waiting[j].id
      /\ \A i \in 1..Len(e.log), j \in 1..Len(waiting) : e.log[i].id < waiting[j].id

\* two events of different kinds have been delivered, the reply first
C14_Witness ==
    \E w \in Addr :
      /\ Len(engines[w].log) = 2
      /\ engines[w].log[1].id = 1 /\ engines[w].log[1].kind = "reply"
      /\ engines[w].log[2].id = 2 /\ engines[w].log[2].kind = "received"

RegisterOps ==
    {"wallet_call_back_register_received_transaction",
     "wallet_call_back_register_received_transaction_reply"}

\* the slot a registration function sets
SlotOf(op) ==
    IF op = "wallet_call_back_register_received_transaction" THEN "received" ELSE "reply"

\* C15: the callback table of a new wallet has both slots empty; a
\* registration sets the slot of its event kind to the function given,
\* whatever the slot held, and changes nothing else; nothing but a
\* registration or the end of the wallet changes a slot; an event is
\* delivered to the function its slot holds, the one registered last.
C15_Registration ==
    [][ /\ (call'.op = "wallet_create" /\ call'.ret # NULL)
            => (engines'[call'.ret].received = "none" /\ engines'[call'.ret].reply = "none")
        /\ (call'.op \in RegisterOps /\ call'.outcome = "ok")
            => LET w == call'.args.wallet IN
               /\ \A v \in Addr \ {w} : engines'[v] = engines[v]
               /\ w # NULL
                  => IF call'.ret
                     THEN engines'[w] = [engines[w] EXCEPT ![SlotOf(call'.op)] = call'.args.call]
                     ELSE engines'[w] = engines[w]
        /\ \A w \in Addr :
             /\ (engines'[w].received # engines[w].received
                   \/ engines'[w].reply # engines[w].reply)
                => call'.op \in RegisterOps \cup {"wallet_create", "wallet_destroy"}
             /\ Invocation(w)
                => LET last == engines'[w].log[Len(engines'[w].log)] IN
                   last.callback = engines[w][last.kind] ]_vars

\* two events of one kind were delivered to two different functions: the
\* second was registered between them
C15_Witness ==
    \E w \in Addr :
      /\ Len(engines[w].log) = 2
      /\ engines[w].log[1].kind = engines[w].log[2].kind
      /\ engines[w].log[1].callback # engines[w].log[2].callback
      /\ engines[w][engines[w].log[2].kind] = engines[w].log[2].callback

(************************** contacts of a wallet ***************************)
\* the contacts stored in the wallet of cell w, as a set
StoredIn(h, w) == {h[w].val.contacts[i] : i \in 1..Len(h[w].val.contacts)}

\* C17: a wallet operation has completed its engine operation when it
\* returns, so that calls made one after another take effect in that
\* order: when wallet_add_contact(w, c) returns true the contact is in the
\* store, when wallet_remove_contact(w, c) returns true it is not, nothing
\* but these (and the loading of test data) changes the store, and
\* wallet_get_contacts(w) returns the store as it is when it is called.
C17_SequentialEffect ==
    [][ /\ (call'.op = "wallet_add_contact" /\ call'.ret = TRUE)
            => heap[call'.args.contact].val \in StoredIn(heap', call'.args.wallet)
        /\ (call'.op = "wallet_remove_contact" /\ call'.ret = TRUE)
            => /\ heap[call'.args.contact].val \notin StoredIn(heap', call'.args.wallet)
               /\ ~HasContact(heap'[call'.args.wallet].val.contacts,
                              heap[call'.args.contact].val.public_key)
        /\ (call'.op = "wallet_get_contacts" /\ call'.ret # NULL)
            => heap'[call'.ret].val = heap[call'.args.wallet].val.contacts
        /\ \A w \in Addr :
             (/\ heap[w].type = "Wallet" /\ heap'[w].type = "Wallet"
              /\ heap'[w].val.contacts # heap[w].val.contacts)
               => /\ call'.args.wallet = w
                  /\ call'.ret = TRUE
                  /\ call'.op \in {"wallet_add_contact", "wallet_remove_contact",
                                    "wallet_generate_test_data"} ]_vars

\* the contacts fetched after the caller's contact was added in the place
\* of the stored contact with its key
C17_Witness ==
    /\ call.op = "wallet_get_contacts"
    /\ call.ret # NULL
    /\ heap[call.ret].val = <<[alias |-> <<"a">>, public_key |-> TestKey(1)],
                              [alias |-> <<"c">>, public_key |-> TestKey(2)]>>

CollectionDestroyOps ==
    {"contacts_destroy", "completed_transactions_destroy",
     "pending_inbound_transactions_destroy", "pending_outbound_transactions_destroy"}

\* C19: a collection is a snapshot: no step other than the destroy of that
\* collection changes it (adding and removing contacts, sending, incoming
\* events, further queries and the wallet's destroy included), and the
\* destroy of a collection leaves every other allocation, the elements
\* handed out by get_at among them, as it is.
C19_Snapshot ==
    [][ \A a \in Addr :
          heap[a].type \in CollectionTypes
            => IF call'.op \in CollectionDestroyOps /\ call # call' /\ CollectionArg(call') = a
               THEN \A b \in Addr \ {a} : heap'[b] = heap[b]
               ELSE heap'[a] = heap[a] ]_vars

\* the caller holds a collection taken before a contact was added: it
\* differs from the wallet's store
C19_Witness ==
    \E w, a \in Addr :
      /\ call.op = "wallet_add_contact"
      /\ call.ret = TRUE
      /\ call.args.wallet = w
      /\ heap[w].type = "Wallet"
      /\ heap[a].type = "Contacts"
      /\ a \in held
      /\ heap[a].val = StoredContacts
      /\ heap[w].val.contacts # StoredContacts

(***************************** get by id ***********************************)
ByIdQueries ==
    {"wallet_get_completed_transaction_by_id",
     "wallet_get_pending_inbound_transaction_by_id",
     "wallet_get_pending_outbound_transaction_by_id"}

\* the step of a get-by-id query on wallet w for the identifier id whose
\* engine call succeeds (ok) or fails
ByIdStep(op, w, id, ok) ==
    CASE op = "wallet_get_completed_transaction_by_id" ->
           wallet_get_completed_transaction_by_id(w, id, ok)
      [] op = "wallet_get_pending_inbound_transaction_by_id" ->
           wallet_get_pending_inbound_transaction_by_id(w, id, ok)
      [] op = "wallet_get_pending_outbound_transaction_by_id" ->
           wallet_get_pending_outbound_transaction_by_id(w, id, ok)

\* the engine store a get-by-id query scans, and the type it returns
ByIdStore(op) ==
    CASE op = "wallet_get_completed_transaction_by_id" -> "completed"
      [] op = "wallet_get_pending_inbound_transaction_by_id" -> "pending_inbound"
      [] op = "wallet_get_pending_outbound_transaction_by_id" -> "pending_outbound"

ByIdType(op) ==
    CASE op = "wallet_get_completed_transaction_by_id" -> "CompletedTransaction"
      [] op = "wallet_get_pending_inbound_transaction_by_id" -> "PendingInboundTransaction"
      [] op = "wallet_get_pending_outbound_transaction_by_id" -> "PendingOutboundTransaction"

\* C21: a get-by-id query on a non-null wallet whose engine call succeeds
\* returns a non-null handle if and only if the engine's store of the
\* query's own kind holds an entry with the requested identifier; the
\* handle is a fresh copy of such an entry, of the query's own type, with
\* that identifier; when the engine call fails the query returns null.
C21_GetById ==
    [][ \A op \in ByIdQueries, w \in Addr, ok \in BOOLEAN :
          (/\ Live(heap, w) /\ heap[w].type = "Wallet"
           /\ call'.op = op /\ call'.args.wallet = w
           /\ ByIdStep(op, w, call'.args.transaction_id, ok))
            => LET txs == heap[w].val[ByIdStore(op)]
                   id == call'.args.transaction_id
                   present == \E i \in 1..Len(txs) : txs[i].tx_id = id IN
               /\ call'.outcome = "ok"
               /\ (call'.ret # NULL) <=> (ok /\ present)
               /\ call'.ret # NULL
                   => /\ heap[call'.ret] = Free
                      /\ heap'[call'.ret].type = ByIdType(op)
                      /\ heap'[call'.ret].val.tx_id = id
                      /\ \E i \in 1..Len(txs) : heap'[call'.ret].val = txs[i]
                      /\ heap'[w] = heap[w]
               /\ call'.ret = NULL => heap' = heap ]_vars

\* the pending inbound transaction of the test data was found by its id
C21_Witness ==
    /\ call.op = "wallet_get_pending_inbound_transaction_by_id"
    /\ call.args.transaction_id = 2
    /\ call.ret # NULL
    /\ heap[call.ret].type = "PendingInboundTransaction"
    /\ heap[call.ret].val.tx_id = 2
    /\ heap[call.ret].val.amount = 20

(***************************** wallet_destroy ******************************)
\* C22: wallet_destroy on a non-null wallet asks the engine to shut down
\* exactly once, on the wallet as it is before its memory is released, and
\* returns normally with the wallet released, whether the shutdown
\* succeeds or fails; nothing the caller gets tells the two apart.
C22_DestroyShutsDown ==
    [][ \A w \in Addr, ok \in BOOLEAN :
          (/\ Live(heap, w) /\ heap[w].type = "Wallet"
           /\ call'.op = "wallet_destroy" /\ call'.args.wallet = w
           /\ wallet_destroy(w, ok))
            => /\ call'.outcome = "ok"
               /\ call'.ret = "void"
               /\ call'.engine = <<"shutdown">>
               /\ heap'[w] = Free
               /\ w \notin held'
               /\ \A a \in Addr \ {w} : heap'[a] = heap[a]
               /\ \E fate \in Fates(engines[w]) : engines'[w] = shutdown(engines[w], fate)
               /\ \A v \in Addr \ {w} : engines'[v] = engines[v]
               /\ errlog' = errlog
               /\ wallet_destroy(w, ~ok) ]_vars

\* a wallet that held test data has been destroyed
C22_Witness ==
    /\ call.op = "wallet_destroy"
    /\ call.args.wallet # NULL
    /\ call.engine = <<"shutdown">>
    /\ heap[call.args.wallet] = Free
    /\ call.args.wallet \notin held
    /\ ~engines[call.args.wallet].running

(*************************** comms_config_create ***************************)
\* the foreign strings of a call that are present and are not UTF-8
IllFormedArgs(c) ==
    {f \in DOMAIN c.args \cap ForeignFields :
       ~c.args[f].is_null /\ ~to_str_ok(c.args[f].mem)}

\* C23: comms_config_create returns null and creates no handle whenever
\* the address, the database name or the datastore path is null, or the
\* address is a string that does not parse as a network address; given
\* three strings, an address that parses and a private key handle it
\* returns a non-null config.
C23_ConfigCreate ==
    [][ call'.op = "comms_config_create"
          => LET a == call'.args IN
             /\ (\/ a.address.is_null \/ a.database_name.is_null \/ a.datastore_path.is_null
                 \/ (to_str_ok(a.address.mem) /\ ~parse_NetAddress(a.address.mem).ok))
                 => /\ call'.outcome = "ok"
                    /\ call'.ret = NULL
                    /\ heap' = heap /\ held' = held
             /\ (/\ NullArgs(call') = {} /\ IllFormedArgs(call') = {}
                 /\ parse_NetAddress(a.address.mem).ok)
                 => /\ call'.outcome = "ok"
                    /\ call'.ret # NULL
                    /\ heap'[call'.ret].type = "CommsConfig" ]_vars

(**************************** key round trip *******************************)
\* from_bytes of the key type a create function builds
Key_from_bytes(op, v) ==
    IF op = "public_key_create" THEN PublicKey_from_bytes(v) ELSE PrivateKey_from_bytes(v)

\* to_vec of the key type a create function builds
Key_to_vec(op, k) ==
    IF op = "public_key_create" THEN PublicKey_to_vec(k) ELSE PrivateKey_to_vec(k)

\* C24: the bytes exported from a key build the same key again: a key's
\* get_bytes returns a vector of 32 bytes which from_bytes accepts and from
\* which it rebuilds exactly that key; a key's create function returns, for
\* a vector from_bytes accepts, a non-null key holding what from_bytes
\* built; and for a vector that holds the exported bytes of a key it returns
\* a non-null key that exports those bytes again.
C24_KeyRoundTrip ==
    [][ /\ (call'.op \in {"public_key_get_bytes", "private_key_get_bytes"}
             /\ call'.args.pk # NULL)
            => LET key == heap[call'.args.pk].val
                   create == IF call'.op = "public_key_get_bytes"
                             THEN "public_key_create" ELSE "private_key_create" IN
               /\ call'.outcome = "ok"
               /\ call'.ret # NULL
               /\ heap'[call'.ret].type = "ByteVector"
               /\ heap'[call'.ret].val.len = c_uint(KeyLen)
               /\ heap'[call'.ret].val = Key_to_vec(create, key)
               /\ Key_from_bytes(create, heap'[call'.ret].val) = [ok |-> TRUE, val |-> key]
        /\ (call'.op \in {"public_key_create", "private_key_create"}
             /\ call'.args.bytes # NULL)
            => LET bytes == heap[call'.args.bytes].val
                   built == Key_from_bytes(call'.op, bytes) IN
               /\ call'.outcome = "ok"
               /\ (call'.ret # NULL) <=> built.ok
               /\ built.ok => heap'[call'.ret].val = built.val
               /\ \A k \in Scalars :
                    bytes = Key_to_vec(call'.op, k)
                      => /\ call'.ret # NULL
                         /\ heap'[call'.ret].val = k
                         /\ Key_to_vec(call'.op, heap'[call'.ret].val) = bytes ]_vars

\* a public key derived from a secret key was exported and built again
\* from the exported bytes, which are not the digits of the point
C24_Witness ==
    /\ call.op = "public_key_create"
    /\ call.ret # NULL
    /\ heap[call.ret].type = "PublicKey"
    /\ heap[call.ret].val = from_secret_key(1)
    /\ heap[call.args.bytes].val = PublicKey_to_vec(heap[call.ret].val)
    /\ heap[call.args.bytes].val # le_bytes(heap[call.ret].val)

(****************************** two runs ***********************************)
\* The same calls made in two runs of the program that differ only in the
\* bytes of the private keys private_key_generate draws.  The first run is
\* observed call by call; the second starts from a fresh process and is
\* compared with the first, call by call.  The environment is the same in
\* both runs: the random source opens, the identity, the runtime and the
\* engine are built, and the engine answers.

\* number of calls observed in the first run
MaxCalls == 5

\* the private keys the random source can yield
GeneratedKeys == {2, 3}

\* what the caller sees of a call: the call, what it returned, how it ended,
\* and the LibWalletError values it has been handed so far
Observation(c, log) ==
    [op |-> c.op, args |-> c.args, ret |-> c.ret, outcome |-> c.outcome, errors |-> log]

\* the operations that reveal a private key by design
Revealing == {"private_key_get_bytes", "public_key_from_private_key"}

\* the errors that were converted, without what they were converted to
Errors(log) == [i \in DOMAIN log |-> <<log[i].family, log[i].error>>]

\* the second run has made the call the first run made at the same position,
\* after the same errors were converted
SameCall ==
    /\ twin.run = "second"
    /\ call.op # "idle"
    /\ twin.pos <= Len(twin.seen)
    /\ call.op = twin.seen[twin.pos].op
    /\ call.args = twin.seen[twin.pos].args
    /\ Errors(errlog) = Errors(twin.seen[twin.pos].errors)

\* the call returns a value made from what a revealing operation returned
FromRevealed(c) == c.op \in Revealing \/ HandleArgs(c) \cap twin.derived # {}

\* the first run: the caller takes note of the call that has ended
observe ==
    /\ twin.run = "first"
    /\ call.op # "idle"
    /\ Len(twin.seen) < MaxCalls
    /\ twin' = [twin EXCEPT !.seen = Append(@, Observation(call, errlog)),
                            !.run = IF call.outcome = "ok" THEN "first" ELSE "ended"]
    /\ call' = IF call.outcome = "ok" THEN Idle ELSE call
    /\ UNCHANGED <<heap, held, errlog, engines, threads>>

\* the second run starts: a fresh process, nothing allocated
rerun ==
    /\ \/ twin.run = "first" /\ Running
       \/ twin.run = "ended"
    /\ twin.seen # <<>>
    /\ heap' = [a \in Addr |-> Free]
    /\ held' = {}
    /\ call' = Idle
    /\ errlog' = <<>>
    /\ engines' = [a \in Addr |-> Stopped]
    /\ twin' = [twin EXCEPT !.run = "second", !.pos = 1, !.derived = {}]
    /\ UNCHANGED threads

\* the second run: the call that has ended is the one the first run made;
\* the handles made from revealed values are followed
compare ==
    /\ SameCall
    /\ twin' = [twin EXCEPT
                  !.pos = @ + 1,
                  !.run = IF call.outcome = "ok" THEN "second" ELSE "over",
                  !.derived = {a \in @ \cup (IF ReturnsHandle(call) /\ FromRevealed(call)
                                             THEN {call.ret} ELSE {}) : heap[a] # Free}]
    /\ call' = IF call.outcome = "ok" THEN Idle ELSE call
    /\ UNCHANGED <<heap, held, errlog, engines, threads>>

InitSecret ==
    /\ heap = [a \in 1..(MaxAddr + 1) |-> Free]
    /\ held = {}
    /\ call = Idle
    /\ errlog = <<>>
    /\ engines = [a \in 1..(MaxAddr + 1) |-> Stopped]
    /\ twin = [run |-> "first", seen |-> <<>>, pos |-> 0, derived |-> {}]
    /\ threads = NoThreads

NextSecret ==
    \/ observe
    \/ rerun
    \/ compare
    \/ \E k \in GeneratedKeys : private_key_generate(TRUE, k)
    \/ \E h \in Handles("PrivateKey") \ {NULL} : private_key_get_bytes(h)
    \/ \E h \in Handles("PrivateKey") \ {NULL} : public_key_from_private_key(h)
    \/ \E h \in Handles("PrivateKey") \ {NULL} : private_key_destroy(h)
    \/ \E h \in Handles("ByteVector") \ {NULL} : byte_vector_get_at(h, c_uint(0))
    \/ \E h \in Handles("PublicKey") \ {NULL} : public_key_get_bytes(h)
    \/ \E h \in Handles("PrivateKey") \ {NULL} :
          comms_config_create(Ptr(IpAddress), Ptr(<<"db">>), Ptr(<<"db">>), h, TRUE)
    \/ \E h \in Handles("CommsConfig") \ {NULL} : wallet_create(h, TRUE, TRUE)
    \/ \E h \in Handles("Wallet") \ {NULL} : wallet_get_balance(h, TRUE)
    \/ Running /\ errlog = <<>> /\ convert_ByteArrayError(<<"IncorrectLength">>)

SpecSecret == InitSecret /\ [][NextSecret]_vars

(************************ properties: key secrecy **************************)
\* C25: two runs that make the same calls and differ only in the bytes of a
\* generated private key return the same values, end the same way and hand
\* out the same LibWalletError values, call by call, except for what
\* private_key_get_bytes and public_key_from_private_key return and what is
\* made from it.
C25_KeySecrecy ==
    SameCall =>
        /\ call.outcome = twin.seen[twin.pos].outcome
        /\ errlog = twin.seen[twin.pos].errors
        /\ call.ret = twin.seen[twin.pos].ret
             \/ (FromRevealed(call) /\ call.op \notin HandleReturning)

\* the second run, holding another private key than the first, has built a
\* configuration from it as the first did, after a revealed byte differed
C25_Witness ==
    /\ SameCall
    /\ call.op = "comms_config_create"
    /\ call.ret # NULL
    /\ call.outcome = "ok"
    /\ \E i \in 1..(twin.pos - 1) :
          /\ twin.seen[i].op = "byte_vector_get_at"
          /\ twin.seen[i].ret \in {2, 3}
          /\ heap[call.ret].val.node_identity.secret_key # twin.seen[i].ret

(**************************** caller threads *******************************)
\* Several caller threads share the handles of one process.  A call on a
\* wallet is made in steps: the thread calls the function, the function
\* tests its arguments and goes into the wallet (runtime.block_on on the
\* engine call; Box::from_raw and shutdown in wallet_destroy), and the
\* engine call ends and the function returns.  lib.rs takes no lock in any
\* of these steps.  `call` is the call that returned last.

\* number of caller threads
MaxThreads == 2

Threads == 1..MaxThreads

\* the wallet operations the threads make
SharedOps == {"wallet_get_balance", "wallet_send_transaction", "wallet_destroy"}

\* a thread that is making no call
Out == [at |-> "out", op |-> "none", wallet |-> NULL, key |-> NULL, ret |-> "void"]

\* what the function returns when it finds a null argument
Sentinel(op) ==
    CASE op = "wallet_get_balance" -> 0
      [] op = "wallet_send_transaction" -> FALSE
      [] OTHER -> "void"

\* the function returns at once when its null tests find a null argument
NullTested(c) ==
    \/ c.wallet = NULL
    \/ c.op = "wallet_send_transaction" /\ c.key = NULL

\* the engine operation of a wallet function
EngineOp(op) ==
    CASE op = "wallet_get_balance" -> "get_balance"
      [] op = "wallet_send_transaction" -> "send_transaction"
      [] OTHER -> "shutdown"

\* what a read of released memory can find
Found == {0, 1000}

\* thread t calls a wallet function on the handles w and k
thread_call(t, op, w, k) ==
    /\ call.outcome = "ok"
    /\ threads[t].at = "out"
    /\ threads' = [threads EXCEPT ![t] = [at |-> "called", op |-> op, wallet |-> w,
                                          key |-> k, ret |-> "void"]]
    /\ UNCHANGED <<heap, held, call, errlog, engines, twin>>

\* a boundary layer that lets one thread at a time into a wallet
thread_enter_Serialized(t) ==
    /\ call.outcome = "ok"
    /\ threads[t].at = "called"
    /\ \A u \in Threads \ {t} :
          ~(threads[u].at = "inside" /\ threads[u].wallet = threads[t].wallet)
    /\ threads' = [threads EXCEPT ![t] =
                     IF NullTested(threads[t])
                     THEN [threads[t] EXCEPT !.at = "out", !.ret = Sentinel(threads[t].op)]
                     ELSE [threads[t] EXCEPT !.at = "inside"]]
    /\ UNCHANGED <<heap, held, call, errlog, engines, twin>>

\* the null tests of the function, and its way into the wallet: whatever
\* the other threads are doing
thread_enter(t) ==
    /\ call.outcome = "ok"
    /\ threads[t].at = "called"
    /\ threads' = [threads EXCEPT ![t] =
                     IF NullTested(threads[t])
                     THEN [threads[t] EXCEPT !.at = "out", !.ret = Sentinel(threads[t].op)]
                     ELSE [threads[t] EXCEPT !.at = "inside"]]
    /\ UNCHANGED <<heap, held, call, errlog, engines, twin>>

\* the engine call of thread t ends and the function returns.  When another
\* thread's wallet_destroy has released the wallet meanwhile, the function
\* has used released memory: it faults, or it returns whatever it found.
thread_leave(t, engine_ok, faults, found) ==
    LET c == threads[t]
        w == c.wallet
        args == [wallet |-> w]
        released == heap[w].type # "Wallet"
        ret == CASE c.op = "wallet_get_balance" ->
                      IF released THEN found
                      ELSE IF engine_ok THEN heap[w].val.balance ELSE 0
                 [] c.op = "wallet_send_transaction" -> engine_ok
                 [] OTHER -> "void" IN
    /\ call.outcome = "ok"
    /\ c.at = "inside"
    /\ IF released /\ faults
       THEN /\ call' = [op |-> c.op, args |-> args, ret |-> "void", engine |-> <<>>,
                        outcome |-> "fault"]
            /\ UNCHANGED <<heap, held, engines, threads>>
       ELSE /\ call' = [op |-> c.op, args |-> args, ret |-> ret,
                        engine |-> <<EngineOp(c.op)>>, outcome |-> "ok"]
            /\ threads' = [threads EXCEPT ![t] = [c EXCEPT !.at = "out", !.ret = ret]]
            /\ IF c.op = "wallet_destroy" /\ ~released
               THEN /\ heap' = [heap EXCEPT ![w] = Free]
                    /\ held' = held \ {w}
                    /\ \E fate \in Fates(engines[w]) :
                          engines' = [engines EXCEPT ![w] = shutdown(@, fate)]
               ELSE UNCHANGED <<heap, held, engines>>
    /\ UNCHANGED <<errlog, twin>>

InitThreads ==
    /\ heap = [a \in 1..MaxAddr |->
                 IF a = 1 THEN [Wallet(TestConfig.val) EXCEPT !.val = TestData(@)]
                 ELSE PublicKey(TestKey(1))]
    /\ held = 1..MaxAddr
    /\ call = Idle
    /\ errlog = <<>>
    /\ engines = [a \in 1..MaxAddr |-> IF a = 1 THEN Started ELSE Stopped]
    /\ twin = NoTwin
    /\ threads = [t \in Threads |-> Out]

NextThreads ==
    \/ \E t \in Threads, op \in SharedOps :
          \E w \in Handles("Wallet"), k \in Handles("PublicKey") : thread_call(t, op, w, k)
    \/ \E t \in Threads : thread_enter(t)
    \/ \E t \in Threads, ok \in BOOLEAN, faults \in BOOLEAN, found \in Found :
          thread_leave(t, ok, faults, found)

SpecThreads == InitThreads /\ [][NextThreads]_vars

(********************** properties: shared wallet **************************)
\* the thread is executing inside the wallet w
Inside(t, w) == threads[t].at = "inside" /\ threads[t].wallet = w

\* C26: the boundary layer does not serialize the calls of two threads on
\* one wallet handle: a thread that has called a wallet function with
\* non-null arguments can go into the wallet whatever the other threads are
\* doing there, and of the threads executing inside the wallet any one can
\* be the next to return.
C26_NotSerialized ==
    \A t \in Threads :
       /\ (call.outcome = "ok" /\ threads[t].at = "called" /\ ~NullTested(threads[t]))
             => ENABLED (thread_enter(t) /\ threads'[t].at = "inside")
       /\ (call.outcome = "ok" /\ threads[t].at = "inside")
             => ENABLED thread_leave(t, TRUE, FALSE, 0)

\* a query and wallet_destroy of two threads are executing inside the same
\* wallet at the same time
C26_Witness ==
    \E t, u \in Threads : \E w \in Addr :
       /\ t # u
       /\ Inside(t, w) /\ threads[t].op = "wallet_get_balance"
       /\ Inside(u, w) /\ threads[u].op = "wallet_destroy"
       /\ heap[w].type = "Wallet"

(******************************* teardown **********************************)
\* The handles of test_wallet_ffi: a generated private key, the public key
\* derived from it, the config built from the key and the wallet built from
\* the config, released in any order.
InitTeardown ==
    /\ heap = [a \in 1..(MaxAddr + 2) |-> Free]
    /\ held = {}
    /\ call = Idle
    /\ errlog = <<>>
    /\ engines = [a \in 1..(MaxAddr + 2) |-> Stopped]
    /\ twin = NoTwin
    /\ threads = NoThreads

NextTeardown ==
    \/ resume
    \/ \E k \in SpecSecretKeys : private_key_generate(TRUE, k)
    \/ \E h \in Handles("PrivateKey") : public_key_from_private_key(h)
    \/ \E h \in Handles("PrivateKey") \ {NULL} :
          comms_config_create(Ptr(IpAddress), Ptr(<<"db">>), Ptr(<<"db">>), h, TRUE)
    \/ \E h \in Handles("CommsConfig") : \E rt \in Outcomes(h), ok \in Outcomes(h) :
          wallet_create(h, rt, ok)
    \/ \E h \in Handles("Wallet") : \E ok \in Outcomes(h) : wallet_destroy(h, ok)
    \/ \E h \in Handles("PrivateKey") : private_key_destroy(h)
    \/ \E h \in Handles("PublicKey") : public_key_destroy(h)
    \/ \E h \in Handles("CommsConfig") : comms_config_destroy(h)

SpecTeardown == InitTeardown /\ [][NextTeardown]_vars

(*********************** properties: teardown ******************************)
\* the destroy functions of the teardown, with the argument that carries the
\* handle and the type of what it releases
TeardownOps ==
    {<<"wallet_destroy", "wallet", "Wallet">>, <<"private_key_destroy", "pk", "PrivateKey">>,
     <<"public_key_destroy", "pk", "PublicKey">>, <<"comms_config_destroy", "wc", "CommsConfig">>}

\* C27: handles built from other handles do not depend on them afterwards:
\* whatever the order of wallet_destroy, private_key_destroy,
\* public_key_destroy and comms_config_destroy, each destroy of a handle the
\* caller holds finds its allocation live, releases that allocation and no
\* other, and leaves every other handle the caller holds live and unchanged.
C27_Teardown ==
    [][ \A d \in TeardownOps :
          (call'.op = d[1] /\ call'.args[d[2]] # NULL)
             => LET p == call'.args[d[2]] IN
                /\ p \in held
                /\ heap[p].type = d[3]
                /\ call'.outcome = "ok"
                /\ heap' = [heap EXCEPT ![p] = Free]
                /\ held' = held \ {p}
                /\ \A a \in held' : heap'[a] = heap[a] /\ heap'[a] # Free ]_vars

\* the private key has been destroyed while the config built from it and
\* the wallet built from that config are live and still carry the key
C27_Witness ==
    /\ call.op = "private_key_destroy"
    /\ call.args.pk # NULL
    /\ heap[call.args.pk] = Free
    /\ \E c, w \in held :
          /\ heap[c].type = "CommsConfig"
          /\ heap[w].type = "Wallet"
          /\ heap[w].val.comms_config = heap[c].val
          /\ heap[c].val.node_identity.secret_key \in SpecSecretKeys

(********************* properties: null wallet *****************************)
\* the operations that take a wallet handle, by what they return
WalletFlagOps ==
    {"wallet_generate_test_data", "wallet_add_base_node_peer", "wallet_add_contact",
     "wallet_remove_contact", "wallet_send_transaction",
     "wallet_call_back_register_received_transaction",
     "wallet_call_back_register_received_transaction_reply"}
WalletOps == WalletFlagOps \cup {"wallet_get_balance"} \cup WalletQueries

\* the call has returned the failure sentinel of its operation
FailureSentinel(c) ==
    /\ c.outcome = "ok"
    /\ IF c.op \in WalletFlagOps THEN c.ret = FALSE ELSE c.ret = 0

\* C28: an operation that takes a wallet handle returns false, 0 or null
\* when the wallet handle or another required handle or string argument is
\* null, and then invokes no wallet engine operation.
C28_NullWallet ==
    [][ (call'.op \in WalletOps /\ NullArgs(call') # {})
           => (FailureSentinel(call') /\ call'.engine = <<>>) ]_vars

(****************** properties: transaction-service codes ******************)
\* the error is a transaction-service error that wraps an output-manager error
WrapsOutputManager(e) ==
    /\ Len(e) >= 3
    /\ e[1] = "TransactionServiceError"
    /\ e[2] = "OutputManagerError"

NestedNotEnoughFunds == <<"TransactionServiceError", "OutputManagerError", "NotEnoughFunds">>

\* the explicit arms a recorded conversion took: all but the catch-all arm
ExplicitArms(c) ==
    {<<c.family, i>> : i \in {j \in Taken(ErrArms(c.family), c.error) :
                                ErrArms(c.family)[j].pat # <<"_">>}}

\* C29: a transaction-service error wrapping the output-manager error
\* NotEnoughFunds maps to 204 and one wrapping any other output-manager
\* error maps to 205, and two conversions that took different explicit arms,
\* of one family or of two, gave different codes.
C29_SpecificArmWins ==
    /\ \A i \in DOMAIN errlog :
          (errlog[i].family = "WalletError" /\ WrapsOutputManager(errlog[i].error))
             => /\ errlog[i].result # {}
                /\ \A r \in errlog[i].result :
                      r.code = IF errlog[i].error = NestedNotEnoughFunds THEN 204 ELSE 205
    /\ \A i, j \in DOMAIN errlog :
          \A a \in ExplicitArms(errlog[i]), b \in ExplicitArms(errlog[j]) :
             a # b => \A r \in errlog[i].result, q \in errlog[j].result : r.code # q.code

\* the wrapped NotEnoughFunds was converted to 204 and a wrapped storage
\* error of the output manager to 205
C29_Witness ==
    /\ Len(errlog) = 2
    /\ errlog[1].error = NestedNotEnoughFunds
    /\ \E r \in errlog[1].result : r.code = 204
    /\ errlog[2].error = <<"TransactionServiceError", "OutputManagerError",
                           "OutputManagerStorageError", "ValuesNotFound">>
    /\ \E r \in errlog[2].result : r.code = 205

(********************* properties: the bounds check ************************)
\* C30: for a non-empty byte vector of any length that fits an unsigned
\* 32-bit count, the length minus one computed as a signed 32-bit integer
\* neither overflows nor is negative, a position below the length is read,
\* and a position not below the length is answered with 0.
C30_BoundsCheck ==
    (call.op = "byte_vector_get_at" /\ call.args.ptr # NULL
       /\ heap[call.args.ptr].val.len # c_uint(0))
      => LET length == heap[call.args.ptr].val.len
             position == call.args.position IN
         /\ as_c_int(length) # IntMin
         /\ as_c_int(length) >= 1
         /\ call.outcome = "ok"
         /\ call.ret = IF ULess(position, length)
                       THEN ElemAt(heap[call.args.ptr].val, position) ELSE 0
====
